---------------------------- MODULE Spec2Model ----------------------------
(***************************************************************************)
(* A model of the registered-pointer facility of tclh                      *)
(* (src/include/tclhPointerImpl.c): the pointer registry (a table of       *)
(* pointer records and a table of subtag -> supertag edges), the           *)
(* registration protocol, the tag compatibility walk and the text form of  *)
(* a wrapped pointer.                                                      *)
(*                                                                         *)
(* A pointer value is a natural number, 0 being the C NULL pointer.  A     *)
(* type tag is a Tcl_Obj*: it is modelled as a record [str, id] where str  *)
(* is the tag's text (a sequence of one-character strings) and id tells    *)
(* apart two Tcl_Obj instances holding the same text.  The NULL tag is the *)
(* record with id 0.                                                       *)
(***************************************************************************)
EXTENDS Integers, Sequences, FiniteSets, TLC

VARIABLES
    pointers,   \* registryP->pointers : pointer value -> TclhPointerRecord
    castables,  \* registryP->castables: subtag text -> supertag Tcl_Obj
    hist,       \* history: per pointer, the calls since it was last absent
    walk,       \* the position of a PointerTypeCompatible walk in progress
    obj,        \* a Tcl_Obj holding a wrapped pointer (codec)
    ctx         \* the Tclh_LibContext of the interpreter and its registry pointer

vars == <<pointers, castables, hist, walk, obj, ctx>>

---------------------------------------------------------------------------
(* Bounds of the model *)

\* A pointer is registered at most MaxRegs times between two absences.
MaxRegs == 2

---------------------------------------------------------------------------
(* Values *)

Letters == <<"A", "B", "C", "D", "E", "F", "G", "H", "I", "J", "K", "L", "M", "N", "O", "P">>

\* The text of the i-th tag name.
TagText(i) == <<Letters[i]>>

\* The tag texts the registry specification uses.
TagTexts == {TagText(1), TagText(2), TagText(3)}

\* A NULL Tclh_PointerTypeTag.
NULL == [str |-> <<>>, id |-> 0]

\* A Tcl_Obj holding text s; id distinguishes instances.
Tag(s, i) == [str |-> s, id |-> i]

\* Tcl_GetString(tag)
Tcl_GetString(tag) == tag.str

\* The tags the registry specification passes in: NULL, one instance of
\* every text and a second instance of the first text.
TagObjs == {NULL} \cup {Tag(s, 1) : s \in TagTexts} \cup {Tag(TagText(1), 2)}

NamedTags == TagObjs \ {NULL}

\* The supertags the registry specification passes in.
SuperTags == {NULL} \cup {Tag(s, 1) : s \in TagTexts}

\* The tags the specification without history has records made with: NULL
\* and one instance of every text.  The second instance of a text is passed
\* in where a tag is compared only.
RecordTags == {NULL} \cup {Tag(s, 1) : s \in TagTexts}

\* The pointer values the registry specification uses; 0 is NULL.
Ptrs == {0, 1, 2}

\* Return codes: TCL_OK and the error kinds of the Tclh_Error* helpers.
TCL_OK == "OK"
E_InvalidValue == "InvalidValue"   \* Tclh_ErrorInvalidValue
E_NotFound == "NotFound"           \* Tclh_ErrorGeneric(.., "NOT_FOUND", ..)
E_WrongType == "TypeMismatch"      \* Tclh_ErrorWrongType
E_Exists == "Conflict"             \* Tclh_ErrorExists
E_Generic == "Generic"             \* Tclh_ErrorGeneric(.., "POINTER", ..)
TCL_ERROR == "Error"               \* a bare TCL_ERROR, no error helper called

\* A TclhPointerRecord.
PointerRecord(tag, n) == [tagObj |-> tag, nRefs |-> n]

\* A wrapped pointer's internal representation (ptr1, ptr2).
Tclh_PointerWrap(pointerValue, tag) == [pv |-> pointerValue, tag |-> tag]

---------------------------------------------------------------------------
(* Tag comparison *)

\* Mutant: a NULL expected tag is compared like any other.
PointerTypeSame_NoWildcard(pointer_tag, expected_tag) ==
    IF pointer_tag = expected_tag THEN TRUE
    ELSE IF pointer_tag = NULL \/ expected_tag = NULL THEN FALSE
    ELSE Tcl_GetString(pointer_tag) = Tcl_GetString(expected_tag)

PointerTypeSame(pointer_tag, expected_tag) ==
    IF pointer_tag = expected_tag \/ expected_tag = NULL THEN TRUE
    ELSE IF pointer_tag = NULL THEN FALSE
    ELSE Tcl_GetString(pointer_tag) = Tcl_GetString(expected_tag)

\* The hard limit on the depth of supertag lookups.
WalkLimit == 10

\* Mutant: one iteration too many.
WalkContinues_OffByOne(i) == i <= WalkLimit

\* Mutant: no limit on the depth of lookups.
WalkContinues_Unbounded(i) == TRUE

\* The loop condition of PointerTypeCompatible's for loop.
WalkContinues(i) == i < WalkLimit

\* The for loop of PointerTypeCompatible, entered with loop counter i.
RECURSIVE CompatibleLoop(_, _, _, _)
CompatibleLoop(cast, tag, expected, i) ==
    IF ~WalkContinues(i) THEN FALSE
    ELSE IF Tcl_GetString(tag) \notin DOMAIN cast THEN FALSE
    ELSE LET super == cast[Tcl_GetString(tag)] IN
         IF super = NULL THEN FALSE
         ELSE IF PointerTypeSame(super, expected) THEN TRUE
         ELSE CompatibleLoop(cast, super, expected, i + 1)

\* Mutant: the hierarchy is never walked.
PointerTypeCompatible_NoWalk(cast, tag, expected) ==
    PointerTypeSame(tag, expected)

\* Mutant: the walk is tried from either tag.
PointerTypeCompatible_EitherWay(cast, tag, expected) ==
    IF PointerTypeSame(tag, expected) THEN TRUE
    ELSE \/ tag # NULL /\ CompatibleLoop(cast, tag, expected, 0)
         \/ expected # NULL /\ CompatibleLoop(cast, expected, tag, 0)

PointerTypeCompatible(cast, tag, expected) ==
    IF PointerTypeSame(tag, expected) THEN TRUE
    ELSE IF tag = NULL THEN FALSE
    ELSE CompatibleLoop(cast, tag, expected, 0)

---------------------------------------------------------------------------
(* Registry operations as functions of the registry *)

\* pointers with the entry of p removed (Tcl_DeleteHashEntry).
DeleteEntry(ptrs, p) == [q \in (DOMAIN ptrs) \ {p} |-> ptrs[q]]

\* pointers with the entry of p set to rec.
SetEntry(ptrs, p, rec) == [q \in (DOMAIN ptrs) \cup {p} |-> IF q = p THEN rec ELSE ptrs[q]]

\* Mutant: a counted registration of an exclusive pointer makes it counted.
TclhPointerRegister_Converts(ptrs, pointer, tag, counted) ==
    IF pointer = 0
    THEN [ret |-> E_InvalidValue, pointers |-> ptrs, obj |-> NULL]
    ELSE IF pointer \notin DOMAIN ptrs
    THEN [ret |-> TCL_OK,
          pointers |-> SetEntry(ptrs, pointer, PointerRecord(tag, IF counted THEN 1 ELSE -1)),
          obj |-> Tclh_PointerWrap(pointer, tag)]
    ELSE LET ptrRecP == ptrs[pointer] IN
         IF ~PointerTypeSame(ptrRecP.tagObj, tag)
         THEN [ret |-> E_WrongType, pointers |-> ptrs, obj |-> NULL]
         ELSE IF counted
         THEN [ret |-> TCL_OK,
               pointers |-> SetEntry(ptrs, pointer,
                                PointerRecord(ptrRecP.tagObj,
                                              IF ptrRecP.nRefs < 0 THEN 1 ELSE ptrRecP.nRefs + 1)),
               obj |-> Tclh_PointerWrap(pointer, tag)]
         ELSE IF ptrRecP.nRefs >= 0
              THEN [ret |-> E_Exists, pointers |-> ptrs, obj |-> NULL]
              ELSE [ret |-> TCL_OK, pointers |-> ptrs,
                    obj |-> Tclh_PointerWrap(pointer, tag)]

\* Mutant: the mode of the existing record is not checked.
TclhPointerRegister_NoModeCheck(ptrs, pointer, tag, counted) ==
    IF pointer = 0
    THEN [ret |-> E_InvalidValue, pointers |-> ptrs, obj |-> NULL]
    ELSE IF pointer \notin DOMAIN ptrs
    THEN [ret |-> TCL_OK,
          pointers |-> SetEntry(ptrs, pointer, PointerRecord(tag, IF counted THEN 1 ELSE -1)),
          obj |-> Tclh_PointerWrap(pointer, tag)]
    ELSE LET ptrRecP == ptrs[pointer] IN
         IF ~PointerTypeSame(ptrRecP.tagObj, tag)
         THEN [ret |-> E_WrongType, pointers |-> ptrs, obj |-> NULL]
         ELSE IF counted
         THEN [ret |-> TCL_OK,
               pointers |-> SetEntry(ptrs, pointer,
                                PointerRecord(ptrRecP.tagObj, ptrRecP.nRefs + 1)),
               obj |-> Tclh_PointerWrap(pointer, tag)]
         ELSE [ret |-> TCL_OK, pointers |-> ptrs, obj |-> Tclh_PointerWrap(pointer, tag)]

\* Mutant: a duplicate exclusive registration is counted.
TclhPointerRegister_CountsExclusive(ptrs, pointer, tag, counted) ==
    IF pointer = 0
    THEN [ret |-> E_InvalidValue, pointers |-> ptrs, obj |-> NULL]
    ELSE IF pointer \notin DOMAIN ptrs
    THEN [ret |-> TCL_OK,
          pointers |-> SetEntry(ptrs, pointer, PointerRecord(tag, IF counted THEN 1 ELSE -1)),
          obj |-> Tclh_PointerWrap(pointer, tag)]
    ELSE LET ptrRecP == ptrs[pointer] IN
         IF ~PointerTypeSame(ptrRecP.tagObj, tag)
         THEN [ret |-> E_WrongType, pointers |-> ptrs, obj |-> NULL]
         ELSE IF counted /\ ptrRecP.nRefs < 0
         THEN [ret |-> E_Exists, pointers |-> ptrs, obj |-> NULL]
         ELSE IF ~counted /\ ptrRecP.nRefs >= 0
         THEN [ret |-> E_Exists, pointers |-> ptrs, obj |-> NULL]
         ELSE [ret |-> TCL_OK,
               pointers |-> SetEntry(ptrs, pointer,
                                PointerRecord(ptrRecP.tagObj, ptrRecP.nRefs + 1)),
               obj |-> Tclh_PointerWrap(pointer, tag)]

\* Mutant: a NULL pointer is registered like any other.
TclhPointerRegister_AllowsNull(ptrs, pointer, tag, counted) ==
    IF pointer \notin DOMAIN ptrs
    THEN [ret |-> TCL_OK,
          pointers |-> SetEntry(ptrs, pointer, PointerRecord(tag, IF counted THEN 1 ELSE -1)),
          obj |-> Tclh_PointerWrap(pointer, tag)]
    ELSE LET ptrRecP == ptrs[pointer] IN
         IF ~PointerTypeSame(ptrRecP.tagObj, tag)
         THEN [ret |-> E_WrongType, pointers |-> ptrs, obj |-> NULL]
         ELSE IF counted
         THEN IF ptrRecP.nRefs < 0
              THEN [ret |-> E_Exists, pointers |-> ptrs, obj |-> NULL]
              ELSE [ret |-> TCL_OK,
                    pointers |-> SetEntry(ptrs, pointer,
                                     PointerRecord(ptrRecP.tagObj, ptrRecP.nRefs + 1)),
                    obj |-> Tclh_PointerWrap(pointer, tag)]
         ELSE IF ptrRecP.nRefs >= 0
              THEN [ret |-> E_Exists, pointers |-> ptrs, obj |-> NULL]
              ELSE [ret |-> TCL_OK, pointers |-> ptrs,
                    obj |-> Tclh_PointerWrap(pointer, tag)]

\* Mutant: a tag that differs is reported like a mode that differs.
TclhPointerRegister_TagExists(ptrs, pointer, tag, counted) ==
    IF pointer = 0
    THEN [ret |-> E_InvalidValue, pointers |-> ptrs, obj |-> NULL]
    ELSE IF pointer \notin DOMAIN ptrs
    THEN [ret |-> TCL_OK,
          pointers |-> SetEntry(ptrs, pointer, PointerRecord(tag, IF counted THEN 1 ELSE -1)),
          obj |-> Tclh_PointerWrap(pointer, tag)]
    ELSE LET ptrRecP == ptrs[pointer] IN
         IF ~PointerTypeSame(ptrRecP.tagObj, tag)
         THEN [ret |-> E_Exists, pointers |-> ptrs, obj |-> NULL]
         ELSE IF counted
         THEN IF ptrRecP.nRefs < 0
              THEN [ret |-> E_Exists, pointers |-> ptrs, obj |-> NULL]
              ELSE [ret |-> TCL_OK,
                    pointers |-> SetEntry(ptrs, pointer,
                                     PointerRecord(ptrRecP.tagObj, ptrRecP.nRefs + 1)),
                    obj |-> Tclh_PointerWrap(pointer, tag)]
         ELSE IF ptrRecP.nRefs >= 0
              THEN [ret |-> E_Exists, pointers |-> ptrs, obj |-> NULL]
              ELSE [ret |-> TCL_OK, pointers |-> ptrs,
                    obj |-> Tclh_PointerWrap(pointer, tag)]

TclhPointerRegister(ptrs, pointer, tag, counted) ==
    IF pointer = 0
    THEN [ret |-> E_InvalidValue, pointers |-> ptrs, obj |-> NULL]
    ELSE IF pointer \notin DOMAIN ptrs
    THEN [ret |-> TCL_OK,
          pointers |-> SetEntry(ptrs, pointer, PointerRecord(tag, IF counted THEN 1 ELSE -1)),
          obj |-> Tclh_PointerWrap(pointer, tag)]
    ELSE LET ptrRecP == ptrs[pointer] IN
         IF ~PointerTypeSame(ptrRecP.tagObj, tag)
         THEN [ret |-> E_WrongType, pointers |-> ptrs, obj |-> NULL]
         ELSE IF counted
         THEN IF ptrRecP.nRefs < 0
              THEN [ret |-> E_Exists, pointers |-> ptrs, obj |-> NULL]
              ELSE [ret |-> TCL_OK,
                    pointers |-> SetEntry(ptrs, pointer,
                                     PointerRecord(ptrRecP.tagObj, ptrRecP.nRefs + 1)),
                    obj |-> Tclh_PointerWrap(pointer, tag)]
         ELSE IF ptrRecP.nRefs >= 0
              THEN [ret |-> E_Exists, pointers |-> ptrs, obj |-> NULL]
              ELSE [ret |-> TCL_OK, pointers |-> ptrs,
                    obj |-> Tclh_PointerWrap(pointer, tag)]

\* Mutant: unregistering removes the record whatever its count.
PointerVerifyOrUnregister_NoCount(ptrs, cast, pointer, tag, unregister) ==
    IF pointer \in DOMAIN ptrs
    THEN IF ~PointerTypeCompatible(cast, ptrs[pointer].tagObj, tag)
         THEN [ret |-> E_WrongType, pointers |-> ptrs]
         ELSE IF unregister
         THEN [ret |-> TCL_OK, pointers |-> DeleteEntry(ptrs, pointer)]
         ELSE [ret |-> TCL_OK, pointers |-> ptrs]
    ELSE [ret |-> E_NotFound, pointers |-> ptrs]

\* Mutant: a pointer without a record is silently accepted.
PointerVerifyOrUnregister_IgnoreMissing(ptrs, cast, pointer, tag, unregister) ==
    IF pointer \in DOMAIN ptrs
    THEN LET ptrRecP == ptrs[pointer] IN
         IF ~PointerTypeCompatible(cast, ptrRecP.tagObj, tag)
         THEN [ret |-> E_WrongType, pointers |-> ptrs]
         ELSE IF unregister
         THEN IF ptrRecP.nRefs <= 1
              THEN [ret |-> TCL_OK, pointers |-> DeleteEntry(ptrs, pointer)]
              ELSE [ret |-> TCL_OK,
                    pointers |-> SetEntry(ptrs, pointer,
                                     PointerRecord(ptrRecP.tagObj, ptrRecP.nRefs - 1))]
         ELSE [ret |-> TCL_OK, pointers |-> ptrs]
    ELSE [ret |-> TCL_OK, pointers |-> ptrs]

\* Mutant: the tag passed has to be the very tag object of the record.
PointerVerifyOrUnregister_ExactTag(ptrs, cast, pointer, tag, unregister) ==
    IF pointer \in DOMAIN ptrs
    THEN LET ptrRecP == ptrs[pointer] IN
         IF ptrRecP.tagObj # tag
         THEN [ret |-> E_WrongType, pointers |-> ptrs]
         ELSE IF unregister
         THEN IF ptrRecP.nRefs <= 1
              THEN [ret |-> TCL_OK, pointers |-> DeleteEntry(ptrs, pointer)]
              ELSE [ret |-> TCL_OK,
                    pointers |-> SetEntry(ptrs, pointer,
                                     PointerRecord(ptrRecP.tagObj, ptrRecP.nRefs - 1))]
         ELSE [ret |-> TCL_OK, pointers |-> ptrs]
    ELSE [ret |-> E_NotFound, pointers |-> ptrs]

\* Mutant: unregistering lowers the count and never removes the record.
PointerVerifyOrUnregister_KeepsZero(ptrs, cast, pointer, tag, unregister) ==
    IF pointer \in DOMAIN ptrs
    THEN IF ~PointerTypeCompatible(cast, ptrs[pointer].tagObj, tag)
         THEN [ret |-> E_WrongType, pointers |-> ptrs]
         ELSE IF unregister
         THEN [ret |-> TCL_OK,
               pointers |-> SetEntry(ptrs, pointer,
                                PointerRecord(ptrs[pointer].tagObj, ptrs[pointer].nRefs - 1))]
         ELSE [ret |-> TCL_OK, pointers |-> ptrs]
    ELSE [ret |-> E_NotFound, pointers |-> ptrs]

\* Mutant: the record is released whether or not unregister is asked for.
PointerVerifyOrUnregister_AlwaysUnregisters(ptrs, cast, pointer, tag, unregister) ==
    IF pointer \in DOMAIN ptrs
    THEN LET ptrRecP == ptrs[pointer] IN
         IF ~PointerTypeCompatible(cast, ptrRecP.tagObj, tag)
         THEN [ret |-> E_WrongType, pointers |-> ptrs]
         ELSE IF ptrRecP.nRefs <= 1
         THEN [ret |-> TCL_OK, pointers |-> DeleteEntry(ptrs, pointer)]
         ELSE [ret |-> TCL_OK,
               pointers |-> SetEntry(ptrs, pointer,
                                PointerRecord(ptrRecP.tagObj, ptrRecP.nRefs - 1))]
    ELSE [ret |-> E_NotFound, pointers |-> ptrs]

PointerVerifyOrUnregister(ptrs, cast, pointer, tag, unregister) ==
    IF pointer \in DOMAIN ptrs
    THEN LET ptrRecP == ptrs[pointer] IN
         IF ~PointerTypeCompatible(cast, ptrRecP.tagObj, tag)
         THEN [ret |-> E_WrongType, pointers |-> ptrs]
         ELSE IF unregister
         THEN IF ptrRecP.nRefs <= 1
              THEN [ret |-> TCL_OK, pointers |-> DeleteEntry(ptrs, pointer)]
              ELSE [ret |-> TCL_OK,
                    pointers |-> SetEntry(ptrs, pointer,
                                     PointerRecord(ptrRecP.tagObj, ptrRecP.nRefs - 1))]
         ELSE [ret |-> TCL_OK, pointers |-> ptrs]
    ELSE [ret |-> E_NotFound, pointers |-> ptrs]

Tclh_PointerUnregister(ptrs, cast, pointer, tag) ==
    PointerVerifyOrUnregister(ptrs, cast, pointer, tag, TRUE)

Tclh_PointerVerify(ptrs, cast, pointer, tag) ==
    PointerVerifyOrUnregister(ptrs, cast, pointer, tag, FALSE)


\* Every order in which the elements of S can be listed.
RECURSIVE Orders(_)
Orders(S) ==
    IF S = {} THEN {<<>>}
    ELSE UNION {{<<x>> \o rest : rest \in Orders(S \ {x})} : x \in S}

\* Mutant: pointers registered with a subtag of the tag are listed too.
Tclh_PointerEnumerate_Compatible(ptrs, cast, tag) ==
    LET matched == {pv \in DOMAIN ptrs : PointerTypeCompatible(cast, ptrs[pv].tagObj, tag)}
    IN  {[list |-> [i \in 1..Len(order) |->
                        Tclh_PointerWrap(order[i], ptrs[order[i]].tagObj)],
          pointers |-> ptrs, castables |-> cast] : order \in Orders(matched)}

\* Tclh_PointerEnumerate: the list of the wrapped registered pointers whose
\* tag is the given one, in the order of the hash table, which is any
\* order.  The set of the lists the call can return.
Tclh_PointerEnumerate(ptrs, cast, tag) ==
    LET matched == {pv \in DOMAIN ptrs : PointerTypeSame(ptrs[pv].tagObj, tag)}
    IN  {[list |-> [i \in 1..Len(order) |->
                        Tclh_PointerWrap(order[i], ptrs[order[i]].tagObj)],
          pointers |-> ptrs, castables |-> cast] : order \in Orders(matched)}

---------------------------------------------------------------------------
(* Tag hierarchy *)

\* Tclh_HashAdd(table, key, value): the possible outcomes of adding key.
\* A key that is already present with another value is refused; adding it
\* again with a value of the same text is refused or accepted, the table
\* being left as it is in both cases.
Tclh_HashAdd(table, key, value) ==
    IF key \notin DOMAIN table
    THEN {[ret |-> TCL_OK, table |-> SetEntry(table, key, value)]}
    ELSE IF Tcl_GetString(table[key]) # Tcl_GetString(value)
    THEN {[ret |-> E_Exists, table |-> table]}
    ELSE {[ret |-> E_Exists, table |-> table], [ret |-> TCL_OK, table |-> table]}

\* Mutant: an edge that exists is replaced by the new one.
Tclh_PointerSubtagDefine_Overwrites(cast, subtagObj, supertagObj) ==
    IF supertagObj = NULL
    THEN {[ret |-> TCL_OK, table |-> cast]}
    ELSE IF Tcl_GetString(subtagObj) = Tcl_GetString(supertagObj)
    THEN {[ret |-> TCL_OK, table |-> cast]}
    ELSE {[ret |-> TCL_OK, table |-> SetEntry(cast, Tcl_GetString(subtagObj), supertagObj)]}

\* Mutant: the texts of the two tags are not compared.
Tclh_PointerSubtagDefine_SelfEdge(cast, subtagObj, supertagObj) ==
    IF supertagObj = NULL
    THEN {[ret |-> TCL_OK, table |-> cast]}
    ELSE Tclh_HashAdd(cast, Tcl_GetString(subtagObj), supertagObj)

\* Mutant: removing the edge of a subtag removes every edge.
Tclh_PointerSubtagRemove_ClearsAll(cast, tagObj) ==
    IF tagObj # NULL /\ Tcl_GetString(tagObj) \in DOMAIN cast
    THEN [ret |-> TCL_OK, table |-> [s \in {} |-> NULL]]
    ELSE [ret |-> TCL_OK, table |-> cast]

\* Mutant: removing an edge that does not exist is an error.
Tclh_PointerSubtagRemove_FailsMissing(cast, tagObj) ==
    IF tagObj # NULL /\ Tcl_GetString(tagObj) \in DOMAIN cast
    THEN [ret |-> TCL_OK, table |-> DeleteEntry(cast, Tcl_GetString(tagObj))]
    ELSE [ret |-> E_NotFound, table |-> cast]

\* The possible outcomes of Tclh_PointerSubtagDefine.
Tclh_PointerSubtagDefine(cast, subtagObj, supertagObj) ==
    IF supertagObj = NULL
    THEN {[ret |-> TCL_OK, table |-> cast]}
    ELSE IF Tcl_GetString(subtagObj) = Tcl_GetString(supertagObj)
    THEN {[ret |-> TCL_OK, table |-> cast]}
    ELSE Tclh_HashAdd(cast, Tcl_GetString(subtagObj), supertagObj)

Tclh_PointerSubtagRemove(cast, tagObj) ==
    IF tagObj # NULL /\ Tcl_GetString(tagObj) \in DOMAIN cast
    THEN [ret |-> TCL_OK, table |-> DeleteEntry(cast, Tcl_GetString(tagObj))]
    ELSE [ret |-> TCL_OK, table |-> cast]

---------------------------------------------------------------------------
(* Casting *)

\* Mutant: the tags are not required to be compatible in either direction.
Tclh_PointerCast_NoCompatCheck(ptrs, cast, objP, newTag) ==
    LET oldTag == objP.tag
        pv == objP.pv
        registered == pv \in DOMAIN ptrs
    IN  IF registered /\ ~PointerTypeSame(oldTag, ptrs[pv].tagObj)
        THEN [ret |-> E_WrongType, pointers |-> ptrs, obj |-> NULL, castables |-> cast]
        ELSE [ret |-> TCL_OK,
              pointers |-> IF registered
                           THEN SetEntry(ptrs, pv, PointerRecord(newTag, ptrs[pv].nRefs))
                           ELSE ptrs,
              obj |-> Tclh_PointerWrap(pv, newTag),
              castables |-> cast]

\* Mutant: the re-tagged record is written as a new exclusive record.
Tclh_PointerCast_ResetsCount(ptrs, cast, objP, newTag) ==
    LET oldTag == objP.tag
        pv == objP.pv
        registered == pv \in DOMAIN ptrs
    IN  IF registered /\ ~PointerTypeSame(oldTag, ptrs[pv].tagObj)
        THEN [ret |-> E_WrongType, pointers |-> ptrs, obj |-> NULL, castables |-> cast]
        ELSE IF ~PointerTypeCompatible(cast, oldTag, newTag)
                /\ ~PointerTypeCompatible(cast, newTag, oldTag)
        THEN [ret |-> E_Generic, pointers |-> ptrs, obj |-> NULL, castables |-> cast]
        ELSE [ret |-> TCL_OK,
              pointers |-> IF registered
                           THEN SetEntry(ptrs, pv, PointerRecord(newTag, -1))
                           ELSE ptrs,
              obj |-> Tclh_PointerWrap(pv, newTag),
              castables |-> cast]

\* Mutant: the registration is not changed by the cast.
Tclh_PointerCast_KeepsRecord(ptrs, cast, objP, newTag) ==
    LET oldTag == objP.tag
        pv == objP.pv
        registered == pv \in DOMAIN ptrs
    IN  IF registered /\ ~PointerTypeSame(oldTag, ptrs[pv].tagObj)
        THEN [ret |-> E_WrongType, pointers |-> ptrs, obj |-> NULL, castables |-> cast]
        ELSE IF ~PointerTypeCompatible(cast, oldTag, newTag)
                /\ ~PointerTypeCompatible(cast, newTag, oldTag)
        THEN [ret |-> E_Generic, pointers |-> ptrs, obj |-> NULL, castables |-> cast]
        ELSE [ret |-> TCL_OK, pointers |-> ptrs, obj |-> Tclh_PointerWrap(pv, newTag),
              castables |-> cast]

\* Mutant: the record is given the new tag before the tags are compared.
Tclh_PointerCast_RetagsFirst(ptrs, cast, objP, newTag) ==
    LET oldTag == objP.tag
        pv == objP.pv
        registered == pv \in DOMAIN ptrs
        retagged == IF registered
                    THEN SetEntry(ptrs, pv, PointerRecord(newTag, ptrs[pv].nRefs))
                    ELSE ptrs
    IN  IF registered /\ ~PointerTypeSame(oldTag, ptrs[pv].tagObj)
        THEN [ret |-> E_WrongType, pointers |-> ptrs, obj |-> NULL, castables |-> cast]
        ELSE IF ~PointerTypeCompatible(cast, oldTag, newTag)
                /\ ~PointerTypeCompatible(cast, newTag, oldTag)
        THEN [ret |-> E_Generic, pointers |-> retagged, obj |-> NULL, castables |-> cast]
        ELSE [ret |-> TCL_OK, pointers |-> retagged,
              obj |-> Tclh_PointerWrap(pv, newTag), castables |-> cast]

\* objP is a wrapped pointer (pv, tag) already holding its internal
\* representation; a registry is in scope.  The result holds both tables of
\* the registry as the call leaves them.
Tclh_PointerCast(ptrs, cast, objP, newTag) ==
    LET oldTag == objP.tag
        pv == objP.pv
        registered == pv \in DOMAIN ptrs
    IN  IF registered /\ ~PointerTypeSame(oldTag, ptrs[pv].tagObj)
        THEN [ret |-> E_WrongType, pointers |-> ptrs, obj |-> NULL, castables |-> cast]
        ELSE IF ~PointerTypeCompatible(cast, oldTag, newTag)
                /\ ~PointerTypeCompatible(cast, newTag, oldTag)
        THEN [ret |-> E_Generic, pointers |-> ptrs, obj |-> NULL, castables |-> cast]
        ELSE [ret |-> TCL_OK,
              pointers |-> IF registered
                           THEN SetEntry(ptrs, pv, PointerRecord(newTag, ptrs[pv].nRefs))
                           ELSE ptrs,
              obj |-> Tclh_PointerWrap(pv, newTag),
              castables |-> cast]

---------------------------------------------------------------------------
(* The registry specification: any sequence of calls on one registry *)

NoHist == [reg |-> 0, unreg |-> 0, counted |-> FALSE]

\* No compatibility walk in progress.
NoWalk == [pc |-> "idle"]

\* No Tcl_Obj under conversion.
NoObj == [typePtr |-> "none"]

EmptyTable == [x \in {} |-> NULL]

\* A Tclh_LibContext and what the interpreter holds for it: whether
\* pointerRegistryP is set, the number of TclhCleanupPointerRegistry callbacks
\* queued with Tcl_CallWhenDeleted, whether the interpreter is deleted, the
\* number of callbacks that have run and the tables they freed.
Context(pointerRegistryP, cleanups, deleted, teardowns, freed) ==
    [pointerRegistryP |-> pointerRegistryP, cleanups |-> cleanups,
     deleted |-> deleted, teardowns |-> teardowns, freed |-> freed]

NothingFreed == [pointers |-> EmptyTable, castables |-> EmptyTable]

\* The context after Tclh_PointerLibInit.
ReadyContext == Context(TRUE, 1, FALSE, 0, NothingFreed)

\* The state after Tclh_PointerLibInit: both hash tables empty.
Init ==
    /\ pointers = EmptyTable
    /\ castables = EmptyTable
    /\ hist = [p \in Ptrs |-> NoHist]
    /\ walk = NoWalk
    /\ obj = NoObj
    /\ ctx = ReadyContext

Register(p, tag, counted) ==
    LET r == TclhPointerRegister(pointers, p, tag, counted)
        fresh == p \notin DOMAIN pointers
    IN  /\ ~(r.ret = TCL_OK /\ ~fresh /\ hist[p].reg >= MaxRegs)
        /\ pointers' = r.pointers
        /\ hist' = IF r.ret # TCL_OK THEN hist
                   ELSE IF fresh
                   THEN [hist EXCEPT ![p] = [reg |-> 1, unreg |-> 0, counted |-> counted]]
                   ELSE [hist EXCEPT ![p].reg = @ + 1]
        /\ UNCHANGED <<castables, walk, obj, ctx>>

Unregister(p, tag) ==
    LET r == Tclh_PointerUnregister(pointers, castables, p, tag)
    IN  /\ pointers' = r.pointers
        /\ hist' = IF r.ret = TCL_OK THEN [hist EXCEPT ![p].unreg = @ + 1] ELSE hist
        /\ UNCHANGED <<castables, walk, obj, ctx>>

Verify(p, tag) ==
    LET r == Tclh_PointerVerify(pointers, castables, p, tag)
    IN  /\ pointers' = r.pointers
        /\ UNCHANGED <<castables, hist, walk, obj, ctx>>

SubtagDefine(sub, super) ==
    \E r \in Tclh_PointerSubtagDefine(castables, sub, super) :
        /\ castables' = r.table
        /\ UNCHANGED <<pointers, hist, walk, obj, ctx>>

SubtagRemove(tag) ==
    LET r == Tclh_PointerSubtagRemove(castables, tag)
    IN  /\ castables' = r.table
        /\ UNCHANGED <<pointers, hist, walk, obj, ctx>>

Cast(p, tag, newTag) ==
    \E r \in {Tclh_PointerCast(pointers, castables, Tclh_PointerWrap(p, tag), newTag)} :
        /\ pointers' = r.pointers
        /\ castables' = r.castables
        /\ UNCHANGED <<hist, walk, obj, ctx>>

Next ==
    \/ \E p \in Ptrs, tag \in TagObjs, counted \in BOOLEAN : Register(p, tag, counted)
    \/ \E p \in Ptrs, tag \in TagObjs : Unregister(p, tag)
    \/ \E p \in Ptrs, tag \in TagObjs : Verify(p, tag)
    \/ \E sub \in NamedTags, super \in SuperTags : SubtagDefine(sub, super)
    \/ \E tag \in TagObjs : SubtagRemove(tag)
    \/ \E p \in Ptrs, tag \in TagObjs, newTag \in TagObjs : Cast(p, tag, newTag)

Spec == Init /\ [][Next]_vars

---------------------------------------------------------------------------
(* The registry specification without the history of calls *)

\* Tclh_PointerRegister and Tclh_PointerRegisterCounted; a count stops at
\* MaxRegs.
RegisterPlain(p, tag, counted) ==
    \E r \in {TclhPointerRegister(pointers, p, tag, counted)} :
        /\ (r.ret = TCL_OK /\ counted) => r.pointers[p].nRefs <= MaxRegs
        /\ pointers' = r.pointers
        /\ UNCHANGED <<castables, hist, walk, obj, ctx>>

UnregisterPlain(p, tag) ==
    \E r \in {Tclh_PointerUnregister(pointers, castables, p, tag)} :
        /\ pointers' = r.pointers
        /\ UNCHANGED <<castables, hist, walk, obj, ctx>>

NextPlain ==
    \/ \E p \in Ptrs, tag \in RecordTags, counted \in BOOLEAN : RegisterPlain(p, tag, counted)
    \/ \E p \in Ptrs, tag \in TagObjs : UnregisterPlain(p, tag)
    \/ \E p \in Ptrs, tag \in TagObjs : Verify(p, tag)
    \/ \E sub \in NamedTags, super \in SuperTags : SubtagDefine(sub, super)
    \/ \E tag \in TagObjs : SubtagRemove(tag)
    \/ \E p \in Ptrs, tag \in TagObjs, newTag \in RecordTags : Cast(p, tag, newTag)

SpecPlain == Init /\ [][NextPlain]_vars

---------------------------------------------------------------------------
(* The compatibility walk, one loop iteration per step *)

\* The hierarchies of the walk specification are chains of at most ChainLen
\* edges, possibly closed into a cycle.
ChainLen == 11

\* The i-th tag of the chain, i in 0..ChainLen.
ChainTag(i) == Tag(TagText(i + 1), 1)

ChainTags == {ChainTag(i) : i \in 0..ChainLen}

\* The table after Tclh_PointerSubtagDefine has accepted every edge of the
\* sequence edges, in order.
RECURSIVE DefineAll(_, _)
DefineAll(cast, edges) ==
    IF edges = <<>> THEN cast
    ELSE LET r == CHOOSE x \in Tclh_PointerSubtagDefine(cast, edges[1][1], edges[1][2]) :
                      x.ret = TCL_OK
         IN  DefineAll(r.table, Tail(edges))

\* T0 -> T1 -> ... -> Tk
Chain(k) == DefineAll(EmptyTable, [i \in 1..k |-> <<ChainTag(i - 1), ChainTag(i)>>])

\* T0 -> ... -> Tk -> Tj with j < k: a cycle Tj .. Tk behind a tail T0 .. Tj.
ChainWithBack(k, j) == DefineAll(Chain(k), <<<<ChainTag(k), ChainTag(j)>>>>)

Hierarchies ==
    {Chain(k) : k \in 0..ChainLen}
        \cup {ChainWithBack(e[1], e[2]) :
                  e \in {x \in (1..ChainLen) \X (0..(ChainLen - 1)) : x[2] < x[1]}}

InitWalk ==
    /\ pointers = EmptyTable
    /\ castables \in Hierarchies
    /\ hist = [p \in Ptrs |-> NoHist]
    /\ walk = NoWalk
    /\ obj = NoObj
    /\ ctx = ReadyContext

Walking(pc, from, tag, expected, i, lookups, result) ==
    [pc |-> pc, from |-> from, tag |-> tag, expected |-> expected,
     i |-> i, lookups |-> lookups, result |-> result]

\* PointerTypeCompatible is entered: the two tests before the loop.
WalkStart(tag, expected) ==
    /\ walk.pc = "idle"
    /\ walk' = IF PointerTypeSame(tag, expected)
               THEN Walking("done", tag, tag, expected, 0, 0, TRUE)
               ELSE IF tag = NULL
               THEN Walking("done", tag, tag, expected, 0, 0, FALSE)
               ELSE Walking("loop", tag, tag, expected, 0, 0, FALSE)
    /\ UNCHANGED <<pointers, castables, hist, obj, ctx>>

\* The loop test and, when it passes, one iteration of the loop.
WalkStep ==
    /\ walk.pc = "loop"
    /\ walk' =
         IF ~WalkContinues(walk.i)
         THEN [walk EXCEPT !.pc = "done", !.result = FALSE]
         ELSE IF Tcl_GetString(walk.tag) \notin DOMAIN castables
         THEN [walk EXCEPT !.pc = "done", !.result = FALSE, !.lookups = @ + 1]
         ELSE LET super == castables[Tcl_GetString(walk.tag)] IN
              IF super = NULL
              THEN [walk EXCEPT !.pc = "done", !.result = FALSE, !.lookups = @ + 1,
                                !.tag = super]
              ELSE IF PointerTypeSame(super, walk.expected)
              THEN [walk EXCEPT !.pc = "done", !.result = TRUE, !.lookups = @ + 1,
                                !.tag = super]
              ELSE [walk EXCEPT !.i = @ + 1, !.lookups = @ + 1, !.tag = super]
    /\ UNCHANGED <<pointers, castables, hist, obj, ctx>>

\* The caller takes the result.
WalkReturn ==
    /\ walk.pc = "done"
    /\ walk' = NoWalk
    /\ UNCHANGED <<pointers, castables, hist, obj, ctx>>

NextWalk ==
    \/ \E tag \in ChainTags \cup {NULL}, expected \in ChainTags \cup {NULL} :
           WalkStart(tag, expected)
    \/ WalkStep
    \/ WalkReturn

SpecWalk == InitWalk /\ [][NextWalk]_vars

\* The loop is sequential code: an iteration that can run does run.
SpecWalkFair == SpecWalk /\ WF_vars(WalkStep)

---------------------------------------------------------------------------
(* The text form of a wrapped pointer *)

\* Pointer values of the codec specification are 0..MaxAddr.
MaxAddr == 17

\* Tag texts of the codec specification have at most MaxTagLen characters.
MaxTagLen == 2

HexDigits == <<"0", "1", "2", "3", "4", "5", "6", "7", "8", "9", "a", "b", "c", "d", "e", "f">>

IsHexDigit(c) == \E i \in 1..16 : HexDigits[i] = c

HexValue(c) == (CHOOSE i \in 1..16 : HexDigits[i] = c) - 1

\* TclhPrintAddress: the address in hexadecimal digits.
RECURSIVE TclhPrintAddress(_)
TclhPrintAddress(address) ==
    IF address < 16 THEN <<HexDigits[address + 1]>>
    ELSE TclhPrintAddress(address \div 16) \o <<HexDigits[(address % 16) + 1]>>

\* The text without its leading white space.
RECURSIVE SkipSpaces(_)
SkipSpaces(text) ==
    IF text # <<>> /\ Head(text) = " " THEN SkipSpaces(Tail(text)) ELSE text

\* The value of the longest prefix of text made of hexadecimal digits,
\* continuing from the value acc of the digits already read.
RECURSIVE ScanHex(_, _)
ScanHex(text, acc) ==
    IF text # <<>> /\ IsHexDigit(Head(text))
    THEN ScanHex(Tail(text), acc * 16 + HexValue(Head(text)))
    ELSE acc

\* sscanf(srep, "%p^", &pv) == 1: white space is skipped, an optional 0x
\* and at least one hexadecimal digit are read.
ScanPointer(srep) ==
    LET t == SkipSpaces(srep)
        d == IF Len(t) >= 3 /\ t[1] = "0" /\ t[2] \in {"x", "X"} /\ IsHexDigit(t[3])
             THEN SubSeq(t, 3, Len(t)) ELSE t
    IN  IF d # <<>> /\ IsHexDigit(Head(d))
        THEN [ok |-> TRUE, pv |-> ScanHex(d, 0)]
        ELSE [ok |-> FALSE, pv |-> 0]

\* strchr(srep, c): the index of the first c in srep, 0 when there is none.
Strchr(srep, c) ==
    IF \E k \in 1..Len(srep) : srep[k] = c
    THEN CHOOSE k \in 1..Len(srep) : srep[k] = c /\ \A j \in 1..(k - 1) : srep[j] # c
    ELSE 0

\* Tcl_NewStringObj(s, -1): a new Tcl_Obj, no instance seen before.
Tcl_NewStringObj(s) == Tag(s, 3)

\* Mutant: a NULL pointer without tag is written as the literal NULL.
UpdatePointerTypeString_NullLiteral(pv, tagObj) ==
    IF pv = 0 /\ tagObj = NULL THEN <<"N", "U", "L", "L">>
    ELSE LET tagStr == IF tagObj # NULL THEN Tcl_GetString(tagObj) ELSE <<>>
         IN  TclhPrintAddress(pv) \o <<"^">> \o tagStr

\* The string representation of a wrapped pointer.
UpdatePointerTypeString(pv, tagObj) ==
    LET tagStr == IF tagObj # NULL THEN Tcl_GetString(tagObj) ELSE <<>>
    IN  TclhPrintAddress(pv) \o <<"^">> \o tagStr

\* Mutant: the tag is taken after the last ^ of the text.
SetPointerFromAny_LastCaret(srep) ==
    LET sc == ScanPointer(srep)
        s == IF \E k \in 1..Len(srep) : srep[k] = "^"
             THEN CHOOSE k \in 1..Len(srep) :
                      srep[k] = "^" /\ \A j \in (k + 1)..Len(srep) : srep[j] # "^"
             ELSE 0
    IN  IF sc.ok
        THEN IF s = 0
             THEN [ret |-> E_InvalidValue, pv |-> 0, tag |-> NULL]
             ELSE IF s = Len(srep)
             THEN [ret |-> TCL_OK, pv |-> sc.pv, tag |-> NULL]
             ELSE [ret |-> TCL_OK, pv |-> sc.pv,
                   tag |-> Tcl_NewStringObj(SubSeq(srep, s + 1, Len(srep)))]
        ELSE IF srep # <<"N", "U", "L", "L">>
             THEN [ret |-> E_InvalidValue, pv |-> 0, tag |-> NULL]
             ELSE [ret |-> TCL_OK, pv |-> 0, tag |-> NULL]

\* The internal representation read from the text srep.
SetPointerFromAny(srep) ==
    LET sc == ScanPointer(srep)
        s == Strchr(srep, "^")
    IN  IF sc.ok
        THEN IF s = 0
             THEN [ret |-> E_InvalidValue, pv |-> 0, tag |-> NULL]
             ELSE IF s = Len(srep)
             THEN [ret |-> TCL_OK, pv |-> sc.pv, tag |-> NULL]
             ELSE [ret |-> TCL_OK, pv |-> sc.pv,
                   tag |-> Tcl_NewStringObj(SubSeq(srep, s + 1, Len(srep)))]
        ELSE IF srep # <<"N", "U", "L", "L">>
             THEN [ret |-> E_InvalidValue, pv |-> 0, tag |-> NULL]
             ELSE [ret |-> TCL_OK, pv |-> 0, tag |-> NULL]

\* The characters of the codec specification's tag texts.
CodecChars == {"a", "^", "T"}

\* The sequences over S of length at most n.
RECURSIVE SeqsUpTo(_, _)
SeqsUpTo(S, n) ==
    IF n = 0 THEN {<<>>}
    ELSE LET shorter == SeqsUpTo(S, n - 1)
         IN  shorter \cup {Append(t, c) : t \in shorter, c \in S}

CodecTags == {NULL} \cup {Tag(t, 1) : t \in SeqsUpTo(CodecChars, MaxTagLen)}

CodecPtrs == 0..MaxAddr

\* A Tcl_Obj: its type, its internal representation (pv, tag), its string
\* representation (hasBytes: bytes is not NULL), the pair it was wrapped
\* from, whether the internal representation was read from text, and the
\* code of the last conversion.
PointerObj(typePtr, pv, tag, hasBytes, bytes, src, decoded, ret) ==
    [typePtr |-> typePtr, pv |-> pv, tag |-> tag, hasBytes |-> hasBytes,
     bytes |-> bytes, src |-> src, decoded |-> decoded, ret |-> ret]

InitCodec ==
    /\ pointers = EmptyTable
    /\ castables = EmptyTable
    /\ hist = [p \in Ptrs |-> NoHist]
    /\ walk = NoWalk
    /\ obj = NoObj
    /\ ctx = ReadyContext

\* Tclh_PointerWrap: a new object with no string representation.
CodecWrap(pv, tag) ==
    /\ obj = NoObj
    /\ obj' = PointerObj("Pointer", pv, tag, FALSE, <<>>,
                         Tclh_PointerWrap(pv, tag), FALSE, TCL_OK)
    /\ UNCHANGED <<pointers, castables, hist, walk, ctx>>

\* Tcl_GetString on an object without string representation.
CodecGetString ==
    /\ obj # NoObj
    /\ obj.typePtr = "Pointer"
    /\ ~obj.hasBytes
    /\ obj' = [obj EXCEPT !.hasBytes = TRUE,
                          !.bytes = UpdatePointerTypeString(obj.pv, obj.tag)]
    /\ UNCHANGED <<pointers, castables, hist, walk, ctx>>

\* The object is used as a value of another type: FreePointerType drops
\* the internal representation and only the text is left.
CodecShimmer ==
    /\ obj # NoObj
    /\ obj.typePtr = "Pointer"
    /\ obj.hasBytes
    /\ obj' = [obj EXCEPT !.typePtr = "string", !.pv = 0, !.tag = NULL, !.decoded = FALSE]
    /\ UNCHANGED <<pointers, castables, hist, walk, ctx>>

\* Tclh_PointerUnwrap: the internal representation is read from the text
\* unless the object already holds one.
CodecUnwrap ==
    /\ obj # NoObj
    /\ obj' = IF obj.typePtr = "Pointer" THEN [obj EXCEPT !.ret = TCL_OK]
              ELSE LET r == SetPointerFromAny(obj.bytes) IN
                   IF r.ret = TCL_OK
                   THEN [obj EXCEPT !.typePtr = "Pointer", !.pv = r.pv, !.tag = r.tag,
                                    !.decoded = TRUE, !.ret = TCL_OK]
                   ELSE [obj EXCEPT !.ret = r.ret]
    /\ UNCHANGED <<pointers, castables, hist, walk, ctx>>

\* The object is released.
CodecFree ==
    /\ obj # NoObj
    /\ obj' = NoObj
    /\ UNCHANGED <<pointers, castables, hist, walk, ctx>>

NextCodec ==
    \/ \E pv \in CodecPtrs, tag \in CodecTags : CodecWrap(pv, tag)
    \/ CodecGetString
    \/ CodecShimmer
    \/ CodecUnwrap
    \/ CodecFree

SpecCodec == InitCodec /\ [][NextCodec]_vars

---------------------------------------------------------------------------
(* Reading a wrapped pointer from any text *)

\* The texts read have at most MaxTextLen characters.
MaxTextLen == 3

\* A digit, the separator, a character that is no digit, and white space.
DecodeChars == {"1", "^", "T", " "}

NullLiteral == <<"N", "U", "L", "L">>

\* The texts read: every short text over DecodeChars, the literal NULL and
\* texts next to it.
DecodeTexts ==
    SeqsUpTo(DecodeChars, MaxTextLen)
        \cup {NullLiteral, <<"N", "U", "L">>, NullLiteral \o <<"^">>, NullLiteral \o <<"^", "T">>}

\* Tcl_NewStringObj(text, -1): an object with a string representation only.
CodecFromText(text) ==
    /\ obj = NoObj
    /\ obj' = PointerObj("string", 0, NULL, TRUE, text,
                         Tclh_PointerWrap(0, NULL), FALSE, TCL_OK)
    /\ UNCHANGED <<pointers, castables, hist, walk, ctx>>

NextDecode ==
    \/ \E text \in DecodeTexts : CodecFromText(text)
    \/ CodecUnwrap
    \/ CodecFree

SpecDecode == InitCodec /\ [][NextDecode]_vars

---------------------------------------------------------------------------
(* Wrapped pointers next to the registry *)

\* The tags of the pointers wrapped and registered here.
StoreTags == {NULL, Tag(TagText(1), 1)}

\* Mutant: a pointer is only unwrapped when it is registered.
CodecUnwrap_Registered ==
    /\ obj # NoObj
    /\ obj' = IF obj.typePtr = "Pointer" THEN [obj EXCEPT !.ret = TCL_OK]
              ELSE LET r == SetPointerFromAny(obj.bytes) IN
                   IF r.ret = TCL_OK /\ r.pv \in DOMAIN pointers
                   THEN [obj EXCEPT !.typePtr = "Pointer", !.pv = r.pv, !.tag = r.tag,
                                    !.decoded = TRUE, !.ret = TCL_OK]
                   ELSE IF r.ret = TCL_OK THEN [obj EXCEPT !.ret = E_NotFound]
                   ELSE [obj EXCEPT !.ret = r.ret]
    /\ UNCHANGED <<pointers, castables, hist, walk, ctx>>

\* Tclh_PointerUnwrap next to the registry.
StoreUnwrap == CodecUnwrap

\* Pointers are registered and unregistered while one of them is wrapped,
\* written as text and read back.
NextStore ==
    \/ \E p \in Ptrs, tag \in StoreTags, counted \in BOOLEAN : Register(p, tag, counted)
    \/ \E p \in Ptrs, tag \in StoreTags : Unregister(p, tag)
    \/ \E pv \in Ptrs, tag \in StoreTags : CodecWrap(pv, tag)
    \/ CodecGetString
    \/ CodecShimmer
    \/ StoreUnwrap
    \/ CodecFree

SpecStore == Init /\ [][NextStore]_vars

---------------------------------------------------------------------------
(* Calls on wrapped pointers *)

\* The Tcl_Obj that Tclh_PointerWrap makes of a pointer and a tag.
WrappedObj(pv, tag) ==
    PointerObj("Pointer", pv, tag, FALSE, <<>>, Tclh_PointerWrap(pv, tag), FALSE, TCL_OK)

\* A Tcl_Obj holding a text and no pointer.
TextObj(text) ==
    PointerObj("string", 0, NULL, TRUE, text, Tclh_PointerWrap(0, NULL), FALSE, TCL_OK)

\* The objects passed to the calls: wrapped pointers, the texts of wrapped
\* pointers and a text that is no pointer.
PointerObjs ==
    {WrappedObj(pv, tag) : pv \in Ptrs, tag \in TagObjs}
        \cup {TextObj(UpdatePointerTypeString(1, tag)) : tag \in {NULL, Tag(TagText(1), 1)}}
        \cup {TextObj(NullLiteral), TextObj(<<"T">>)}

\* The pointer and the tag of an object, read from its text when it holds
\* no pointer: the conversion that opens Tclh_PointerUnwrap,
\* Tclh_PointerUnwrapTagged and Tclh_PointerObjGetTag.
PointerObjConvert(objP) ==
    IF objP.typePtr = "Pointer"
    THEN [ret |-> TCL_OK, pv |-> objP.pv, tag |-> objP.tag]
    ELSE SetPointerFromAny(objP.bytes)

\* The results of Tclh_PointerObjCompare.
CompareDifferent == 0
CompareSame == 1
CompareSameAddress == -1

\* Mutant: two tags are the same tag only when they are the same Tcl_Obj.
Tclh_PointerObjCompare_IdentityOnly(ptr1Obj, ptr2Obj) ==
    LET u1 == PointerObjConvert(ptr1Obj)
        u2 == PointerObjConvert(ptr2Obj)
    IN  IF u1.ret # TCL_OK THEN [ret |-> u1.ret]
        ELSE IF u2.ret # TCL_OK THEN [ret |-> u2.ret]
        ELSE IF u1.pv # u2.pv THEN [ret |-> TCL_OK, result |-> CompareDifferent]
        ELSE IF u1.tag = u2.tag THEN [ret |-> TCL_OK, result |-> CompareSame]
        ELSE [ret |-> TCL_OK, result |-> CompareSameAddress]

\* Tclh_PointerObjCompare: the return code and, on success, *resultP.
Tclh_PointerObjCompare(ptr1Obj, ptr2Obj) ==
    LET u1 == PointerObjConvert(ptr1Obj)
        u2 == PointerObjConvert(ptr2Obj)
    IN  IF u1.ret # TCL_OK THEN [ret |-> u1.ret]
        ELSE IF u2.ret # TCL_OK THEN [ret |-> u2.ret]
        ELSE IF u1.pv # u2.pv THEN [ret |-> TCL_OK, result |-> CompareDifferent]
        ELSE IF u1.tag = u2.tag THEN [ret |-> TCL_OK, result |-> CompareSame]
        ELSE IF u1.tag = NULL \/ u2.tag = NULL
        THEN [ret |-> TCL_OK, result |-> CompareSameAddress]
        ELSE IF Tcl_GetString(u1.tag) # Tcl_GetString(u2.tag)
        THEN [ret |-> TCL_OK, result |-> CompareSameAddress]
        ELSE [ret |-> TCL_OK, result |-> CompareSame]

\* A call in progress: its arguments and, once it has run, what it returned.
Calling(pc, fn, args, r) == [pc |-> pc, fn |-> fn, args |-> args, r |-> r]

\* Tclh_PointerObjCompare is called with two objects.
CompareCall(ptr1Obj, ptr2Obj) ==
    /\ walk = NoWalk
    /\ walk' = Calling("called", "Tclh_PointerObjCompare", <<ptr1Obj, ptr2Obj>>,
                       Tclh_PointerObjCompare(ptr1Obj, ptr2Obj))
    /\ UNCHANGED <<pointers, castables, hist, obj, ctx>>

\* The caller is done with the result.
CallReturn ==
    /\ walk # NoWalk
    /\ walk' = NoWalk
    /\ UNCHANGED <<pointers, castables, hist, obj, ctx>>

NextCompare ==
    \/ \E ptr1Obj \in PointerObjs, ptr2Obj \in PointerObjs : CompareCall(ptr1Obj, ptr2Obj)
    \/ CallReturn

SpecCompare == Init /\ [][NextCompare]_vars

---------------------------------------------------------------------------
(* Registry calls on wrapped pointers *)

\* Mutant: the tag of a NULL pointer is never checked.
Tclh_PointerUnwrapTagged_NullSkips(cast, objP, expectedTag) ==
    LET u == PointerObjConvert(objP)
    IN  IF u.ret # TCL_OK THEN [ret |-> u.ret, pv |-> 0]
        ELSE IF /\ expectedTag # NULL
                /\ u.pv # 0
                /\ u.tag # expectedTag
                /\ ~PointerTypeCompatible(cast, u.tag, expectedTag)
        THEN [ret |-> E_WrongType, pv |-> 0]
        ELSE [ret |-> TCL_OK, pv |-> u.pv]

\* Tclh_PointerUnwrapTagged: the pointer of the object, its tag checked
\* against the expected one unless that is NULL or the object is the NULL
\* pointer without tag.
Tclh_PointerUnwrapTagged(cast, objP, expectedTag) ==
    LET u == PointerObjConvert(objP)
    IN  IF u.ret # TCL_OK THEN [ret |-> u.ret, pv |-> 0]
        ELSE IF /\ expectedTag # NULL
                /\ (u.pv # 0 \/ u.tag # NULL)
                /\ u.tag # expectedTag
                /\ ~PointerTypeCompatible(cast, u.tag, expectedTag)
        THEN [ret |-> E_WrongType, pv |-> 0]
        ELSE [ret |-> TCL_OK, pv |-> u.pv]

\* Mutant: a NULL pointer is unregistered like any other.
Tclh_PointerObjUnregister_NullFails(ptrs, cast, objP, tag) ==
    LET u == Tclh_PointerUnwrapTagged(cast, objP, tag)
    IN  IF u.ret # TCL_OK THEN [ret |-> u.ret, pointers |-> ptrs]
        ELSE Tclh_PointerUnregister(ptrs, cast, u.pv, tag)

\* Tclh_PointerObjUnregister: the pointer of the object is unregistered
\* unless it is NULL.
Tclh_PointerObjUnregister(ptrs, cast, objP, tag) ==
    LET u == Tclh_PointerUnwrapTagged(cast, objP, tag)
    IN  IF u.ret # TCL_OK THEN [ret |-> u.ret, pointers |-> ptrs]
        ELSE IF u.pv # 0 THEN Tclh_PointerUnregister(ptrs, cast, u.pv, tag)
        ELSE [ret |-> TCL_OK, pointers |-> ptrs]

\* TclhUnwrapAnyOfVA: the first of the tags the object unwraps with.  The
\* tags are the arguments before the terminating NULL.
RECURSIVE TclhUnwrapAnyOfVA(_, _, _)
TclhUnwrapAnyOfVA(cast, objP, tags) ==
    IF tags = <<>> THEN [ret |-> E_WrongType, pv |-> 0, tag |-> NULL]
    ELSE LET u == Tclh_PointerUnwrapTagged(cast, objP, Head(tags))
         IN  IF u.ret = TCL_OK THEN [ret |-> TCL_OK, pv |-> u.pv, tag |-> Head(tags)]
             ELSE TclhUnwrapAnyOfVA(cast, objP, Tail(tags))

\* PointerObjVerifyOrUnregisterAnyOf: the pointer is verified or
\* unregistered with the tag the object unwrapped with.
PointerObjVerifyOrUnregisterAnyOf(ptrs, cast, objP, unregister, tags) ==
    LET u == TclhUnwrapAnyOfVA(cast, objP, tags)
    IN  IF u.ret # TCL_OK THEN [ret |-> u.ret, pointers |-> ptrs]
        ELSE PointerVerifyOrUnregister(ptrs, cast, u.pv, u.tag, unregister)

Tclh_PointerObjVerifyAnyOf(ptrs, cast, objP, tags) ==
    PointerObjVerifyOrUnregisterAnyOf(ptrs, cast, objP, FALSE, tags)

\* Mutant: a NULL pointer is not unregistered and is no error.
Tclh_PointerObjUnregisterAnyOf_NullIgnored(ptrs, cast, objP, tags) ==
    LET u == TclhUnwrapAnyOfVA(cast, objP, tags)
    IN  IF u.ret # TCL_OK THEN [ret |-> u.ret, pointers |-> ptrs]
        ELSE IF u.pv = 0 THEN [ret |-> TCL_OK, pointers |-> ptrs]
        ELSE PointerVerifyOrUnregister(ptrs, cast, u.pv, u.tag, TRUE)

Tclh_PointerObjUnregisterAnyOf(ptrs, cast, objP, tags) ==
    PointerObjVerifyOrUnregisterAnyOf(ptrs, cast, objP, TRUE, tags)

\* Mutant: the tag of the object has to be the registered tag.
Tclh_PointerObjVerify_OwnTag(ptrs, cast, objP, tag) ==
    LET u == Tclh_PointerUnwrapTagged(cast, objP, tag)
    IN  IF u.ret # TCL_OK THEN [ret |-> u.ret, pointers |-> ptrs]
        ELSE IF u.pv = 0 THEN [ret |-> E_InvalidValue, pointers |-> ptrs]
        ELSE IF /\ u.pv \in DOMAIN ptrs
                /\ ~PointerTypeSame(PointerObjConvert(objP).tag, ptrs[u.pv].tagObj)
        THEN [ret |-> E_WrongType, pointers |-> ptrs]
        ELSE Tclh_PointerVerify(ptrs, cast, u.pv, tag)

\* Tclh_PointerObjVerify: the object is unwrapped with the tag, a NULL
\* pointer is refused, and the pointer is verified with the tag.
Tclh_PointerObjVerify(ptrs, cast, objP, tag) ==
    LET u == Tclh_PointerUnwrapTagged(cast, objP, tag)
    IN  IF u.ret # TCL_OK THEN [ret |-> u.ret, pointers |-> ptrs]
        ELSE IF u.pv = 0 THEN [ret |-> E_InvalidValue, pointers |-> ptrs]
        ELSE Tclh_PointerVerify(ptrs, cast, u.pv, tag)

\* The lists of tags passed to Tclh_PointerObjVerifyAnyOf have at most
\* MaxTags tags.
MaxTags == 2

TagLists == SeqsUpTo({Tag(s, 1) : s \in TagTexts}, MaxTags)

---------------------------------------------------------------------------
(* The registry called with wrapped pointers *)

ObjUnwrapTagged(objP, tag) ==
    /\ Tclh_PointerUnwrapTagged(castables, objP, tag).ret \in {TCL_OK, E_WrongType, E_InvalidValue}
    /\ UNCHANGED <<pointers, castables, hist, walk, obj, ctx>>

ObjUnregister(objP, tag) ==
    \E r \in {Tclh_PointerObjUnregister(pointers, castables, objP, tag)} :
        /\ pointers' = r.pointers
        /\ UNCHANGED <<castables, hist, walk, obj, ctx>>

ObjVerify(objP, tag) ==
    \E r \in {Tclh_PointerObjVerify(pointers, castables, objP, tag)} :
        /\ pointers' = r.pointers
        /\ UNCHANGED <<castables, hist, walk, obj, ctx>>

ObjUnregisterAnyOf(objP, tags) ==
    \E r \in {Tclh_PointerObjUnregisterAnyOf(pointers, castables, objP, tags)} :
        /\ pointers' = r.pointers
        /\ UNCHANGED <<castables, hist, walk, obj, ctx>>

ObjVerifyAnyOf(objP, tags) ==
    \E r \in {Tclh_PointerObjVerifyAnyOf(pointers, castables, objP, tags)} :
        /\ pointers' = r.pointers
        /\ UNCHANGED <<castables, hist, walk, obj, ctx>>

\* The objects the calls are made with: every pointer wrapped with the tags
\* pointers are registered with.
CallObjs == {WrappedObj(pv, tag) : pv \in Ptrs, tag \in StoreTags}

\* Pointers are registered with the tags of StoreTags and passed back in
\* wrapped form.
NextObj ==
    \/ \E p \in Ptrs, tag \in StoreTags, counted \in BOOLEAN : RegisterPlain(p, tag, counted)
    \/ \E sub \in NamedTags, super \in SuperTags : SubtagDefine(sub, super)
    \/ \E tag \in TagObjs : SubtagRemove(tag)
    \/ \E objP \in PointerObjs, tag \in RecordTags : ObjUnwrapTagged(objP, tag)
    \/ \E objP \in PointerObjs, tag \in RecordTags : ObjUnregister(objP, tag)
    \/ \E objP \in PointerObjs, tag \in RecordTags : ObjVerify(objP, tag)
    \/ \E objP \in CallObjs, tags \in TagLists : ObjUnregisterAnyOf(objP, tags)
    \/ \E objP \in CallObjs, tags \in TagLists : ObjVerifyAnyOf(objP, tags)

SpecObj == Init /\ [][NextObj]_vars

---------------------------------------------------------------------------
(* The life of a registry: creation, use, deletion of the interpreter *)

\* Tclh_LibInit hands back the one context of the interpreter.
Tclh_LibInit(c) == c

\* A Tclh_PointerLibInit that builds a registry on every call.
Tclh_PointerLibInit_Always(c, ptrs, cast, interp, tclhCtxP) ==
    IF ~tclhCtxP /\ ~interp
    THEN {[ret |-> TCL_ERROR, ctx |-> c, pointers |-> ptrs, castables |-> cast]}
    ELSE IF ~interp THEN {}
    ELSE {[ret |-> TCL_OK,
           ctx |-> [c EXCEPT !.pointerRegistryP = TRUE, !.cleanups = @ + 1],
           pointers |-> EmptyTable, castables |-> EmptyTable]}

\* Tclh_PointerLibInit: interp and tclhCtxP tell whether the arguments are
\* non-NULL.  The result is the set of outcomes: Tcl_CallWhenDeleted on a NULL
\* interpreter does not return.
Tclh_PointerLibInit(c, ptrs, cast, interp, tclhCtxP) ==
    IF ~tclhCtxP /\ ~interp
    THEN {[ret |-> TCL_ERROR, ctx |-> c, pointers |-> ptrs, castables |-> cast]}
    ELSE LET tclhCtx == IF tclhCtxP THEN c ELSE Tclh_LibInit(c)
         IN  IF tclhCtx.pointerRegistryP
             THEN {[ret |-> TCL_OK, ctx |-> tclhCtx,
                    pointers |-> ptrs, castables |-> cast]}
             ELSE IF ~interp THEN {}
             ELSE {[ret |-> TCL_OK,
                    ctx |-> [tclhCtx EXCEPT !.pointerRegistryP = TRUE,
                                            !.cleanups = @ + 1],
                    pointers |-> EmptyTable, castables |-> EmptyTable]}

\* A TclhCleanupPointerRegistry that frees only the records nobody else
\* refers to.
TclhCleanupPointerRegistry_KeepsCounted(ptrs, cast) ==
    LET kept == {p \in DOMAIN ptrs : ptrs[p].nRefs > 1}
    IN  [pointers |-> [p \in kept |-> ptrs[p]],
         castables |-> EmptyTable]

\* TclhCleanupPointerRegistry: every record is freed and every supertag
\* released, and both hash tables are deleted.
TclhCleanupPointerRegistry(ptrs, cast) ==
    LET freedRecords == DOMAIN ptrs
        freedEdges == DOMAIN cast
    IN  [pointers |-> [p \in (DOMAIN ptrs) \ freedRecords |-> ptrs[p]],
         castables |-> [s \in (DOMAIN cast) \ freedEdges |-> cast[s]]]

\* An interpreter with its context and no registry yet.
InitLife ==
    /\ pointers = EmptyTable
    /\ castables = EmptyTable
    /\ hist = [p \in Ptrs |-> NoHist]
    /\ walk = NoWalk
    /\ obj = NoObj
    /\ ctx = Context(FALSE, 0, FALSE, 0, NothingFreed)

LibInit(interp, tclhCtxP) ==
    /\ ~ctx.deleted
    /\ \E r \in Tclh_PointerLibInit(ctx, pointers, castables, interp, tclhCtxP) :
        /\ ctx' = r.ctx
        /\ pointers' = r.pointers
        /\ castables' = r.castables
        /\ UNCHANGED <<hist, walk, obj>>

\* The registry is in use only between Tclh_PointerLibInit and the deletion
\* of the interpreter.
InUse == ctx.pointerRegistryP /\ ~ctx.deleted

\* Tcl_DeleteInterp: each queued callback runs once.
InterpDelete ==
    /\ ~ctx.deleted
    /\ LET r == TclhCleanupPointerRegistry(pointers, castables)
       IN  IF ctx.cleanups = 0
           THEN /\ ctx' = [ctx EXCEPT !.deleted = TRUE]
                /\ UNCHANGED <<pointers, castables>>
           ELSE /\ ctx' = [ctx EXCEPT !.deleted = TRUE,
                                      !.teardowns = ctx.cleanups,
                                      !.freed = [pointers |-> pointers,
                                                 castables |-> castables]]
                /\ pointers' = r.pointers
                /\ castables' = r.castables
    /\ UNCHANGED <<hist, walk, obj>>

NextLife ==
    \/ \E interp \in BOOLEAN, tclhCtxP \in BOOLEAN : LibInit(interp, tclhCtxP)
    \/ InUse /\ \E p \in Ptrs, tag \in RecordTags, counted \in BOOLEAN : RegisterPlain(p, tag, counted)
    \/ InUse /\ \E p \in Ptrs, tag \in TagObjs : UnregisterPlain(p, tag)
    \/ InUse /\ \E sub \in NamedTags, super \in SuperTags : SubtagDefine(sub, super)
    \/ InUse /\ \E tag \in TagObjs : SubtagRemove(tag)
    \/ InterpDelete

SpecLife == InitLife /\ [][NextLife]_vars

---------------------------------------------------------------------------
(* Vocabulary of the properties *)

Registered(p) == p \in DOMAIN pointers

\* Two tags are the same tag: both absent, or both present with equal text.
SameText(t1, t2) ==
    \/ t1 = NULL /\ t2 = NULL
    \/ t1 # NULL /\ t2 # NULL /\ t1.str = t2.str

\* The texts reached from text s by following 1..n supertag edges.
RECURSIVE AncestorTexts(_, _, _)
AncestorTexts(cast, s, n) ==
    IF n = 0 \/ s \notin DOMAIN cast THEN {}
    ELSE {cast[s].str} \cup AncestorTexts(cast, cast[s].str, n - 1)

\* Every ancestor of s: a walk repeats itself after |DOMAIN cast| edges.
Ancestors(cast, s) == AncestorTexts(cast, s, Cardinality(DOMAIN cast))

\* Tag t is the record's own tag, an ancestor of it, or no tag at all.
CompatibleWith(rec, t) ==
    \/ t = NULL
    \/ SameText(rec.tagObj, t)
    \/ rec.tagObj # NULL /\ t.str \in Ancestors(castables, rec.tagObj.str)

\* What a successful unregister leaves of the table.
AfterUnregister(p) ==
    IF pointers[p].nRefs <= 1 THEN DeleteEntry(pointers, p)
    ELSE SetEntry(pointers, p, PointerRecord(pointers[p].tagObj, pointers[p].nRefs - 1))

---------------------------------------------------------------------------
(* C1 *)

\* C1: counted balance.  A pointer registered n times as counted stays
\* registered, with n minus the number of unregistrations as its count, and
\* verifies against every compatible tag, as long as fewer than n
\* unregistrations succeeded; after the n-th it has no record and verify
\* fails with NotFound.
C1_CountedBalance ==
    \A p \in Ptrs :
        (hist[p].counted /\ hist[p].reg >= 1) =>
            /\ hist[p].unreg <= hist[p].reg
            /\ hist[p].unreg < hist[p].reg =>
                  /\ Registered(p)
                  /\ pointers[p].nRefs = hist[p].reg - hist[p].unreg
                  /\ \A t \in TagObjs :
                        CompatibleWith(pointers[p], t) =>
                            Tclh_PointerVerify(pointers, castables, p, t).ret = TCL_OK
            /\ hist[p].unreg = hist[p].reg =>
                  /\ ~Registered(p)
                  /\ \A t \in TagObjs :
                        Tclh_PointerVerify(pointers, castables, p, t).ret = E_NotFound

\* A pointer registered MaxRegs times as counted and unregistered as often.
C1_Witness ==
    \E p \in Ptrs :
        /\ hist[p].counted
        /\ hist[p].reg = MaxRegs
        /\ hist[p].unreg = MaxRegs
        /\ ~Registered(p)

---------------------------------------------------------------------------
(* C2 *)

\* C2: stale handle and double release.  For a pointer without a record,
\* verify and unregister fail with NotFound for every tag, NULL included,
\* and leave the table as it is; an exclusive pointer unregistered once and
\* a counted pointer unregistered as often as registered have no record.
C2_StaleNotFound ==
    \A p \in Ptrs :
        /\ ~Registered(p) =>
              \A t \in TagObjs :
                  /\ Tclh_PointerVerify(pointers, castables, p, t)
                        = [ret |-> E_NotFound, pointers |-> pointers]
                  /\ Tclh_PointerUnregister(pointers, castables, p, t)
                        = [ret |-> E_NotFound, pointers |-> pointers]
        /\ (hist[p].reg >= 1 /\ ~hist[p].counted /\ hist[p].unreg >= 1) => ~Registered(p)
        /\ (hist[p].reg >= 1 /\ hist[p].counted /\ hist[p].unreg >= hist[p].reg)
              => ~Registered(p)

\* An exclusive pointer that was unregistered, beside a counted one that was
\* unregistered as often as it was registered.
C2_Witness ==
    \E p, q \in Ptrs :
        /\ ~Registered(p) /\ ~hist[p].counted /\ hist[p].reg >= 1 /\ hist[p].unreg = 1
        /\ ~Registered(q) /\ hist[q].counted /\ hist[q].reg = MaxRegs
        /\ hist[q].unreg = MaxRegs

---------------------------------------------------------------------------
(* C3 *)

\* C3: type gate.  For a pointer registered with a tag Foo, verify and
\* unregister with a named tag Bar that is neither Foo nor an ancestor of
\* Foo fail with TypeMismatch and leave the record as it is.
C3_TypeGate ==
    \A p \in DOMAIN pointers : \A bar \in NamedTags :
        LET foo == pointers[p].tagObj IN
        (foo # NULL /\ bar.str # foo.str /\ bar.str \notin Ancestors(castables, foo.str)) =>
            /\ Tclh_PointerVerify(pointers, castables, p, bar)
                  = [ret |-> E_WrongType, pointers |-> pointers]
            /\ Tclh_PointerUnregister(pointers, castables, p, bar)
                  = [ret |-> E_WrongType, pointers |-> pointers]

\* A pointer registered with Foo while Bar is a subtag of Foo and no
\* ancestor of it: unregistering it as Bar is refused.
C3_Witness ==
    \E p \in DOMAIN pointers : \E bar \in NamedTags :
        LET foo == pointers[p].tagObj IN
        /\ foo # NULL
        /\ bar.str \in DOMAIN castables
        /\ castables[bar.str].str = foo.str
        /\ bar.str \notin Ancestors(castables, foo.str)
        /\ Tclh_PointerUnregister(pointers, castables, p, bar).ret = E_WrongType

---------------------------------------------------------------------------
(* C4 *)

\* C4: mode exclusivity.  Registering an exclusive pointer as counted, or a
\* counted pointer as exclusive, with the same tag fails with Conflict and
\* leaves the record, its count included, as it is.
C4_ModeExclusive ==
    \A p \in DOMAIN pointers : \A t \in TagObjs :
        SameText(pointers[p].tagObj, t) =>
            /\ pointers[p].nRefs < 0 =>
                  LET r == TclhPointerRegister(pointers, p, t, TRUE)
                  IN  r.ret = E_Exists /\ r.pointers = pointers
            /\ pointers[p].nRefs >= 0 =>
                  LET r == TclhPointerRegister(pointers, p, t, FALSE)
                  IN  r.ret = E_Exists /\ r.pointers = pointers

\* An exclusive pointer beside a counted pointer of count MaxRegs.
C4_Witness ==
    \E p, q \in DOMAIN pointers :
        /\ pointers[p].nRefs < 0
        /\ pointers[q].nRefs = MaxRegs
        /\ TclhPointerRegister(pointers, p, pointers[p].tagObj, TRUE).ret = E_Exists
        /\ TclhPointerRegister(pointers, q, pointers[q].tagObj, FALSE).ret = E_Exists

---------------------------------------------------------------------------
(* C5 *)

\* C5: same-tag rule.  Registering an already registered pointer with a tag
\* that is not the record's tag by text - a NULL tag against a named one
\* included - is rejected and leaves the record as it is; with another
\* instance of the same text, and the record's mode, it is accepted.
C5_SameTagRule ==
    \A p \in DOMAIN pointers : \A t \in TagObjs : \A counted \in BOOLEAN :
        LET r == TclhPointerRegister(pointers, p, t, counted) IN
        /\ ~SameText(pointers[p].tagObj, t) => (r.ret # TCL_OK /\ r.pointers = pointers)
        /\ (SameText(pointers[p].tagObj, t) /\ counted = (pointers[p].nRefs >= 0))
              => r.ret = TCL_OK

---------------------------------------------------------------------------
(* C6 *)

\* C6: exclusive re-registration is a no-op.  Registering an exclusive
\* pointer again as exclusive with the same tag succeeds and changes
\* nothing, and one unregister with a compatible tag removes the record
\* however often the pointer was registered.
C6_ExclusiveNoOp ==
    \A p \in Ptrs :
        /\ (Registered(p) /\ pointers[p].nRefs < 0) =>
              /\ pointers[p].nRefs = -1
              /\ ~hist[p].counted /\ hist[p].unreg = 0
              /\ \A t \in TagObjs :
                    /\ SameText(pointers[p].tagObj, t) =>
                          LET r == TclhPointerRegister(pointers, p, t, FALSE)
                          IN  r.ret = TCL_OK /\ r.pointers = pointers
                    /\ CompatibleWith(pointers[p], t) =>
                          Tclh_PointerUnregister(pointers, castables, p, t)
                              = [ret |-> TCL_OK, pointers |-> DeleteEntry(pointers, p)]
        /\ (~hist[p].counted /\ hist[p].unreg >= 1) => ~Registered(p)

\* A pointer registered MaxRegs times as exclusive and gone after a single
\* unregister.
C6_Witness ==
    \E p \in Ptrs :
        /\ ~hist[p].counted
        /\ hist[p].reg = MaxRegs
        /\ hist[p].unreg = 1
        /\ ~Registered(p)

---------------------------------------------------------------------------
(* C7 *)

\* C7: subtype pass-through.  For a pointer registered with Derived, verify
\* and unregister with any ancestor Base of Derived succeed, unregister
\* doing its usual decrement or removal.
C7_SubtypePass ==
    \A p \in DOMAIN pointers : \A base \in NamedTags :
        LET derived == pointers[p].tagObj IN
        (derived # NULL /\ base.str \in Ancestors(castables, derived.str)) =>
            /\ Tclh_PointerVerify(pointers, castables, p, base)
                  = [ret |-> TCL_OK, pointers |-> pointers]
            /\ Tclh_PointerUnregister(pointers, castables, p, base)
                  = [ret |-> TCL_OK, pointers |-> AfterUnregister(p)]

\* A counted pointer of count 2 registered with a tag whose supertag has a
\* supertag of its own: it verifies against the grandparent.
C7_Witness ==
    \E p \in DOMAIN pointers : \E base \in NamedTags :
        LET derived == pointers[p].tagObj IN
        /\ derived # NULL
        /\ pointers[p].nRefs = 2
        /\ derived.str \in DOMAIN castables
        /\ castables[derived.str].str \in DOMAIN castables
        /\ castables[castables[derived.str].str].str = base.str
        /\ base.str # derived.str
        /\ base.str # castables[derived.str].str
        /\ Tclh_PointerVerify(pointers, castables, p, base).ret = TCL_OK

---------------------------------------------------------------------------
(* C8 *)

\* C8: depth cutoff.  For named tags of different text, the walk answers
\* TRUE exactly when expected is reached from tag by following 1 to 10
\* supertag edges; on the chain T0 -> T1 -> ... it answers TRUE for
\* (T0, T10) and FALSE for (T0, T11).  The walk's answer is the value of
\* PointerTypeCompatible.
C8_DepthCutoff ==
    walk.pc = "done" =>
        /\ walk.result = PointerTypeCompatible(castables, walk.from, walk.expected)
        /\ (walk.from # NULL /\ walk.expected # NULL /\ walk.from.str # walk.expected.str)
              => (walk.result <=> walk.expected.str \in AncestorTexts(castables, walk.from.str, 10))
        /\ (castables = Chain(ChainLen) /\ walk.from = ChainTag(0))
              => /\ walk.expected = ChainTag(10) => walk.result
                 /\ walk.expected = ChainTag(11) => ~walk.result

\* On the full chain the walk from T0 for T11 has ended with FALSE, though
\* T11 is reached from T0 by 11 edges.
C8_Witness ==
    /\ walk.pc = "done"
    /\ castables = Chain(ChainLen)
    /\ walk.from = ChainTag(0)
    /\ walk.expected = ChainTag(11)
    /\ walk.expected.str \in AncestorTexts(castables, walk.from.str, 11)
    /\ ~walk.result

---------------------------------------------------------------------------
(* C9 *)

\* The tag texts on a cycle of the hierarchy.
OnCycle(cast, s) == s \in Ancestors(cast, s)

\* C9: the walk terminates on every hierarchy, cyclic ones included: it
\* never makes more than 10 lookups, a walk in its loop comes to its end,
\* and it answers FALSE when expected is not met within the 10 lookups.
C9_WalkTerminates ==
    /\ [](walk.pc # "idle" =>
            /\ walk.lookups <= 10
            /\ (/\ walk.pc = "done"
                /\ walk.from # NULL
                /\ ~SameText(walk.from, walk.expected)
                /\ walk.expected # NULL
                /\ walk.expected.str \notin AncestorTexts(castables, walk.from.str, 10))
                  => ~walk.result)
    /\ (walk.pc = "loop") ~> (walk.pc = "done")

\* A walk that started on a cycle of the hierarchy has ended with FALSE
\* after 10 lookups.
C9_Witness ==
    /\ walk.pc = "done"
    /\ walk.from # NULL
    /\ OnCycle(castables, walk.from.str)
    /\ walk.lookups = 10
    /\ ~walk.result

---------------------------------------------------------------------------
(* C10 *)

\* C10 as stated: codec round trip.  For every pointer value and every tag,
\* absent or of any text, the empty text included, reading back the text
\* written for (pv, tag) gives pv and the same tag: absent if and only if
\* the tag was absent, and of the same text otherwise.
C10_RoundTrip ==
    (obj # NoObj /\ obj.typePtr = "Pointer" /\ obj.decoded) =>
        /\ obj.pv = obj.src.pv
        /\ SameText(obj.tag, obj.src.tag)

\* C10 amended: the text written for (pv, tag) is always read back; it gives
\* pv, and the same tag when the tag was absent or of non-empty text (text
\* with ^ included); a tag of empty text is read back as an absent tag.
C10_RoundTripNonEmpty ==
    /\ (obj # NoObj /\ obj.typePtr = "string") =>
          SetPointerFromAny(obj.bytes).ret = TCL_OK
    /\ (obj # NoObj /\ obj.typePtr = "Pointer" /\ obj.decoded) =>
          /\ obj.ret = TCL_OK
          /\ obj.pv = obj.src.pv
          /\ IF obj.src.tag # NULL /\ obj.src.tag.str = <<>>
             THEN obj.tag = NULL
             ELSE SameText(obj.tag, obj.src.tag)

\* A pointer value of two digits with a tag whose text holds a ^ has been
\* written and read back.
C10_Witness ==
    /\ obj # NoObj
    /\ obj.typePtr = "Pointer"
    /\ obj.decoded
    /\ obj.src.pv >= 16
    /\ obj.src.tag # NULL
    /\ \E k \in 1..Len(obj.src.tag.str) : obj.src.tag.str[k] = "^"
    /\ obj.tag # obj.src.tag
    /\ obj.tag.str = obj.src.tag.str

---------------------------------------------------------------------------
(* C11 *)

\* Two named tags of different texts neither of which is an ancestor of the
\* other.
Unrelated(t1, t2) ==
    /\ t1 # NULL /\ t2 # NULL /\ t1.str # t2.str
    /\ t2.str \notin Ancestors(castables, t1.str)
    /\ t1.str \notin Ancestors(castables, t2.str)

---------------------------------------------------------------------------
(* C12 *)

\* C12: cast re-tags a registered pointer in place.  After a successful cast
\* of a box whose pointer is registered, the record's tag is newTag, its
\* count (and with it its mode) is what it was, every other record is what
\* it was, and the box returned holds the same pointer with newTag; no call
\* of cast, successful or not, changes the hierarchy.
C12_CastRetags ==
    /\ \A p \in DOMAIN pointers : \A oldTag \in TagObjs : \A newTag \in TagObjs :
            LET r == Tclh_PointerCast(pointers, castables,
                                      Tclh_PointerWrap(p, oldTag), newTag)
            IN  r.ret = TCL_OK =>
                    /\ DOMAIN r.pointers = DOMAIN pointers
                    /\ r.pointers[p].tagObj = newTag
                    /\ r.pointers[p].nRefs = pointers[p].nRefs
                    /\ \A q \in (DOMAIN pointers) \ {p} : r.pointers[q] = pointers[q]
                    /\ r.obj = Tclh_PointerWrap(p, newTag)
    /\ \A p \in Ptrs : \A oldTag \in TagObjs : \A newTag \in TagObjs :
            Tclh_PointerCast(pointers, castables,
                             Tclh_PointerWrap(p, oldTag), newTag).castables = castables

\* A counted pointer of count MaxRegs, beside another registered pointer and
\* under a hierarchy that is not empty, can be cast to a tag of another text.
C12_Witness ==
    \E p, q \in DOMAIN pointers : \E newTag \in NamedTags :
        /\ p # q
        /\ pointers[p].nRefs = MaxRegs
        /\ DOMAIN castables # {}
        /\ pointers[p].tagObj # NULL
        /\ newTag.str # pointers[p].tagObj.str
        /\ Tclh_PointerCast(pointers, castables,
                            Tclh_PointerWrap(p, pointers[p].tagObj), newTag).ret = TCL_OK

---------------------------------------------------------------------------
(* C13 *)

\* C13: cast must reflect the true registration.  When the pointer of the
\* box is registered and the record's tag is not the box's tag - by text,
\* NULL being the same as NULL only - the cast fails with TypeMismatch and
\* leaves the record as it is, a record with a NULL tag and a box with a
\* named tag included.
C13_CastTrueRegistration ==
    \A p \in DOMAIN pointers : \A oldTag \in TagObjs : \A newTag \in TagObjs :
        ~SameText(pointers[p].tagObj, oldTag) =>
            Tclh_PointerCast(pointers, castables, Tclh_PointerWrap(p, oldTag), newTag)
                = [ret |-> E_WrongType, pointers |-> pointers, obj |-> NULL,
                   castables |-> castables]

---------------------------------------------------------------------------
(* C14 *)

\* The pointer p is registered with the named tag derived, whose supertag
\* on record is base.
RegisteredAsSubtagOf(p, derived, base) ==
    /\ Registered(p)
    /\ derived # NULL /\ base # NULL
    /\ SameText(pointers[p].tagObj, derived)
    /\ derived.str \in DOMAIN castables
    /\ castables[derived.str].str = base.str

\* The cast of the box (p, derived) to base succeeds and sets the record's
\* tag to base, after which verify succeeds with base and fails with
\* TypeMismatch with derived.
CastUpThenVerify(p, derived, base) ==
    LET r == Tclh_PointerCast(pointers, castables, Tclh_PointerWrap(p, derived), base)
    IN  /\ r.ret = TCL_OK
        /\ r.pointers[p].tagObj = base
        /\ Tclh_PointerVerify(r.pointers, castables, p, base).ret = TCL_OK
        /\ Tclh_PointerVerify(r.pointers, castables, p, derived).ret = E_WrongType

---------------------------------------------------------------------------
(* C15 *)

\* C15: the NULL pointer is never registered.  Registering the NULL pointer
\* fails with InvalidValue, counted or not and with every tag, and leaves
\* the table as it is; the NULL pointer has no record in any state.
C15_NullNotRegistered ==
    /\ ~Registered(0)
    /\ \A t \in TagObjs : \A counted \in BOOLEAN :
          TclhPointerRegister(pointers, 0, t, counted)
              = [ret |-> E_InvalidValue, pointers |-> pointers, obj |-> NULL]

\* Every other pointer is registered, one counted and one not, and the NULL
\* pointer is refused all the same.
C15_Witness ==
    /\ DOMAIN pointers = Ptrs \ {0}
    /\ \E p, q \in DOMAIN pointers : pointers[p].nRefs < 0 /\ pointers[q].nRefs > 0
    /\ \A t \in TagObjs : \A counted \in BOOLEAN :
          TclhPointerRegister(pointers, 0, t, counted).ret = E_InvalidValue

---------------------------------------------------------------------------
(* C16 *)

\* The record of p is counted exactly when the registration asked for is.
SameMode(p, counted) == counted = (pointers[p].nRefs >= 0)

---------------------------------------------------------------------------
(* C17 *)

\* Some call of Tclh_PointerVerify is the step taken.
VerifyStep == \E p \in Ptrs, tag \in TagObjs : Verify(p, tag)

\* C17: verify is unregister without the change.  In every state, for every
\* pointer and tag, verify returns what unregister would return - TCL_OK,
\* NotFound or TypeMismatch - and leaves the table of pointers as it is; no
\* call of verify can change the pointers or the hierarchy.
C17_VerifyTwin ==
    /\ \A p \in Ptrs : \A t \in TagObjs :
          LET v == Tclh_PointerVerify(pointers, castables, p, t)
              u == Tclh_PointerUnregister(pointers, castables, p, t)
          IN  /\ v.ret = u.ret
              /\ v.ret \in {TCL_OK, E_NotFound, E_WrongType}
              /\ v.pointers = pointers
    /\ ~ENABLED (VerifyStep /\ (pointers' # pointers \/ castables' # castables))

\* One pointer is verified with its tag, where unregister would remove it,
\* and refused with another tag; another pointer is not found.
C17_Witness ==
    \E p, q \in Ptrs : \E t \in NamedTags :
        /\ Registered(p) /\ ~Registered(q)
        /\ Tclh_PointerVerify(pointers, castables, p, pointers[p].tagObj).ret = TCL_OK
        /\ Tclh_PointerUnregister(pointers, castables, p, pointers[p].tagObj).pointers
              # pointers
        /\ Tclh_PointerVerify(pointers, castables, p, t).ret = E_WrongType
        /\ Tclh_PointerVerify(pointers, castables, q, t).ret = E_NotFound

---------------------------------------------------------------------------
(* C18 *)

\* C18: NULL as the expected tag.  Verify and unregister with a NULL tag
\* succeed for every registered pointer whatever the tag of its record,
\* unregister releasing it as usual, and every tag is compatible with a
\* NULL expected tag.
C18_UntypedExpected ==
    /\ \A p \in DOMAIN pointers :
          /\ Tclh_PointerVerify(pointers, castables, p, NULL)
                = [ret |-> TCL_OK, pointers |-> pointers]
          /\ Tclh_PointerUnregister(pointers, castables, p, NULL)
                = [ret |-> TCL_OK, pointers |-> AfterUnregister(p)]
    /\ \A tag \in TagObjs : PointerTypeCompatible(castables, tag, NULL)

\* A counted pointer of count MaxRegs with a named tag that has a supertag,
\* beside an exclusive pointer with another named tag, both verified with NULL.
C18_Witness ==
    \E p, q \in DOMAIN pointers :
        /\ pointers[p].nRefs = MaxRegs /\ pointers[q].nRefs < 0
        /\ pointers[p].tagObj # NULL /\ pointers[q].tagObj # NULL
        /\ pointers[p].tagObj.str # pointers[q].tagObj.str
        /\ pointers[p].tagObj.str \in DOMAIN castables
        /\ Tclh_PointerVerify(pointers, castables, p, NULL).ret = TCL_OK
        /\ Tclh_PointerVerify(pointers, castables, q, NULL).ret = TCL_OK

---------------------------------------------------------------------------
(* C19 *)

\* C19: no type checking on pointers with a NULL tag.  For a pointer whose
\* record has a NULL tag, verify and unregister succeed with every expected
\* tag, named or NULL.
C19_NullTagUnchecked ==
    \A p \in DOMAIN pointers : \A t \in TagObjs :
        pointers[p].tagObj = NULL =>
            /\ Tclh_PointerVerify(pointers, castables, p, t).ret = TCL_OK
            /\ Tclh_PointerUnregister(pointers, castables, p, t).ret = TCL_OK

---------------------------------------------------------------------------
(* C20 *)

\* The text of the tag a pointer was wrapped with, empty for a NULL tag.
SrcTagText == IF obj.src.tag = NULL THEN <<>> ELSE obj.src.tag.str

---------------------------------------------------------------------------
(* C21 *)

\* The text is an address: hexadecimal digits and nothing else.
IsAddressText(t) == t # <<>> /\ \A k \in 1..Len(t) : IsHexDigit(t[k])

\* The text is an address immediately followed by a ^.
IsPointerText(t) ==
    /\ Strchr(t, "^") > 1
    /\ IsAddressText(SubSeq(t, 1, Strchr(t, "^") - 1))

\* C21: the texts that are read.  The literal NULL is read as the NULL
\* pointer without tag; an address immediately followed by a ^ is read as
\* that address with the text after the first ^ as tag, no tag when that
\* text is empty; every other text, an address without ^ and an address
\* with other characters before the first ^ included, fails with
\* InvalidValue.
C21_DecodeGrammar ==
    (obj # NoObj /\ obj.typePtr = "string") =>
        LET t == obj.bytes
            r == SetPointerFromAny(t)
            k == Strchr(t, "^")
        IN  /\ t = NullLiteral => (r.ret = TCL_OK /\ r.pv = 0 /\ r.tag = NULL)
            /\ IsPointerText(t) =>
                  /\ r.ret = TCL_OK
                  /\ r.pv = ScanHex(SubSeq(t, 1, k - 1), 0)
                  /\ IF k = Len(t) THEN r.tag = NULL
                     ELSE r.tag # NULL /\ r.tag.str = SubSeq(t, k + 1, Len(t))
            /\ (t # NullLiteral /\ ~IsPointerText(t)) => r.ret = E_InvalidValue

---------------------------------------------------------------------------
(* C22 *)

\* C22: wrapping and unwrapping do not depend on the registry.  A step
\* that makes or reads a wrapped pointer leaves every record and every
\* subtag edge as it was; wrapping always succeeds, and unwrapping succeeds
\* or fails by the text of the object alone, whether its pointer is
\* registered, was never registered or is already unregistered.
C22_CodecIndependent ==
    [][ obj' # obj =>
          /\ pointers' = pointers
          /\ castables' = castables
          /\ (obj = NoObj) => (obj'.typePtr = "Pointer" /\ obj'.ret = TCL_OK)
          /\ (obj # NoObj /\ obj' # NoObj /\ obj.typePtr = "string") =>
                LET r == SetPointerFromAny(obj.bytes)
                IN  /\ obj'.ret = r.ret
                    /\ r.ret = TCL_OK => (obj'.pv = r.pv /\ obj'.tag = r.tag)
      ]_vars

\* A pointer that was registered and is unregistered again has been read
\* from text while another pointer is registered.
C22_Witness ==
    /\ obj # NoObj
    /\ obj.decoded
    /\ obj.ret = TCL_OK
    /\ obj.pv # 0
    /\ obj.pv \notin DOMAIN pointers
    /\ hist[obj.pv].unreg > 0
    /\ DOMAIN pointers # {}

---------------------------------------------------------------------------
(* C23 *)

\* C23: the list of registered pointers.  With a named tag the list holds
\* exactly one wrapped pointer, with its registered tag, for every
\* registered pointer whose registered tag has the text of the given tag,
\* and nothing else: a pointer registered with a subtag of the tag is not
\* listed.  With no tag every registered pointer is listed.  A counted
\* pointer is listed once whatever its count, and the registry is
\* unchanged.
C23_Enumerate ==
    \A tag \in TagObjs :
        \A r \in Tclh_PointerEnumerate(pointers, castables, tag) :
            LET listed(p) == {i \in 1..Len(r.list) : r.list[i].pv = p}
                wanted(p) == Registered(p) /\ (tag = NULL \/ SameText(pointers[p].tagObj, tag))
            IN  /\ \A p \in Ptrs :
                      IF wanted(p)
                      THEN /\ Cardinality(listed(p)) = 1
                           /\ \A i \in listed(p) : r.list[i].tag = pointers[p].tagObj
                      ELSE listed(p) = {}
                /\ \A i \in 1..Len(r.list) : r.list[i].pv \in Ptrs
                /\ r.pointers = pointers
                /\ r.castables = castables

\* A pointer counted twice is registered with a tag, another pointer with
\* a subtag of that tag.
C23_Witness ==
    \E p, q \in Ptrs :
        /\ Registered(p) /\ Registered(q)
        /\ pointers[p].nRefs = 2
        /\ pointers[p].tagObj # NULL /\ pointers[q].tagObj # NULL
        /\ ~SameText(pointers[q].tagObj, pointers[p].tagObj)
        /\ PointerTypeCompatible(castables, pointers[q].tagObj, pointers[p].tagObj)
        /\ \A r \in Tclh_PointerEnumerate(pointers, castables, pointers[p].tagObj) :
               Len(r.list) = 1

---------------------------------------------------------------------------
(* C24 *)

\* C24: an edge is never overwritten.  When the subtag already has an edge
\* to a supertag of another text, defining it as a subtag of a named tag
\* other than itself fails with Conflict and the table of edges is left as
\* it is.
C24_DefineConflict ==
    \A sub \in NamedTags, super \in NamedTags :
        (/\ sub.str \in DOMAIN castables
         /\ super.str # sub.str
         /\ castables[sub.str].str # super.str) =>
            \A r \in Tclh_PointerSubtagDefine(castables, sub, super) :
                r.ret = E_Exists /\ r.table = castables

\* A subtag has an edge, and a third tag is there to be its new supertag.
C24_Witness ==
    \E sub \in NamedTags, super \in NamedTags :
        /\ sub.str \in DOMAIN castables
        /\ super.str # sub.str
        /\ castables[sub.str].str # super.str
        /\ Tclh_PointerSubtagDefine(castables, sub, super) # {}

---------------------------------------------------------------------------
(* C25 *)

\* C25: defining a tag as a subtag of no tag, or of a tag of its own text,
\* succeeds and leaves the table of edges as it is; the table never holds
\* an edge from a tag to itself or to no tag.
C25_DefineNoOp ==
    /\ \A sub \in NamedTags, super \in TagObjs :
           (super = NULL \/ super.str = sub.str) =>
               \A r \in Tclh_PointerSubtagDefine(castables, sub, super) :
                   r.ret = TCL_OK /\ r.table = castables
    /\ \A s \in DOMAIN castables : castables[s] # NULL /\ castables[s].str # s

\* There are edges, one of them from a tag that is now defined as a subtag
\* of another instance of its own text.
C25_Witness ==
    \E sub \in NamedTags, super \in NamedTags :
        /\ sub # super /\ super.str = sub.str
        /\ sub.str \in DOMAIN castables
        /\ Cardinality(DOMAIN castables) >= 2
        /\ Tclh_PointerSubtagDefine(castables, sub, super) # {}

---------------------------------------------------------------------------
(* C26 *)

\* C26: removing a subtag never fails.  The edge of the tag is removed
\* when there is one, and nothing happens otherwise, for no tag included;
\* every other edge and every record is left as it is, and the tag can then
\* be defined as a subtag of any tag again.
C26_RemoveThenDefine ==
    /\ [](\A tag \in TagObjs :
            LET r == Tclh_PointerSubtagRemove(castables, tag)
            IN  /\ r.ret = TCL_OK
                /\ r.table = IF tag = NULL THEN castables
                             ELSE [s \in (DOMAIN castables) \ {tag.str} |-> castables[s]]
                /\ tag # NULL =>
                      \A super \in TagObjs :
                          \A d \in Tclh_PointerSubtagDefine(r.table, tag, super) :
                              /\ d.ret = TCL_OK
                              /\ (super # NULL /\ super.str # tag.str) =>
                                     (tag.str \in DOMAIN d.table /\ d.table[tag.str] = super))
    /\ [][(\E tag \in TagObjs : SubtagRemove(tag)) => pointers' = pointers]_vars

\* A tag that has an edge, next to another edge and a registered pointer,
\* is removed.
C26_Witness ==
    \E tag \in NamedTags :
        /\ tag.str \in DOMAIN castables
        /\ Cardinality(DOMAIN castables) >= 2
        /\ DOMAIN pointers # {}
        /\ Tclh_PointerSubtagRemove(castables, tag).table # castables

---------------------------------------------------------------------------
(* C27 *)

\* Tclh_PointerObjCompare has returned from a call on two objects that
\* hold pointers.
Compared ==
    /\ walk # NoWalk
    /\ walk.fn = "Tclh_PointerObjCompare"
    /\ walk.r.ret = TCL_OK

ComparedA == PointerObjConvert(walk.args[1])
ComparedB == PointerObjConvert(walk.args[2])

\* C27 as stated: the result is "same" when the pointers are equal and the
\* tags are equal, by text or both absent; "same address, different tag"
\* when the pointers are equal and both tags are present and differ;
\* "different" in every other case: the pointers differ, or they are equal
\* and exactly one tag is absent.
C27_Compare ==
    Compared =>
        walk.r.result =
            IF ComparedA.pv = ComparedB.pv /\ SameText(ComparedA.tag, ComparedB.tag)
            THEN CompareSame
            ELSE IF ComparedA.pv = ComparedB.pv /\ ComparedA.tag # NULL /\ ComparedB.tag # NULL
            THEN CompareSameAddress
            ELSE CompareDifferent

\* C27 amended: the result is "same" when the pointers are equal and the
\* tags are equal, by text or both absent; "same address, different tag"
\* when the pointers are equal and the tags are not equal, exactly one of
\* them being absent included; "different" exactly when the pointers
\* differ.
C27_CompareOneAbsent ==
    Compared =>
        walk.r.result =
            IF ComparedA.pv # ComparedB.pv THEN CompareDifferent
            ELSE IF SameText(ComparedA.tag, ComparedB.tag) THEN CompareSame
            ELSE CompareSameAddress

\* Two objects of the same pointer are compared, one with a tag and one
\* without, and the answer is "same address, different tag".
C27_Witness ==
    /\ Compared
    /\ ComparedA.pv = ComparedB.pv
    /\ ComparedA.tag # NULL /\ ComparedB.tag = NULL
    /\ walk.r.result = CompareSameAddress

---------------------------------------------------------------------------
(* C28 *)

\* C28: the cast of the header.  A cast of a box (p, oldTag) to newTag
\* succeeds only if newTag is NULL or oldTag is newTag or derived from it
\* through the subtag edges; a cast from a tag to one of its subtags and a
\* cast of an untyped box to a named tag are rejected.
C28_CastAsDocumented ==
    \A oldTag \in TagObjs : \A newTag \in TagObjs : \A p \in Ptrs :
        Tclh_PointerCast(pointers, castables, Tclh_PointerWrap(p, oldTag), newTag).ret = TCL_OK
            => \/ newTag = NULL
               \/ /\ oldTag # NULL
                  /\ \/ SameText(oldTag, newTag)
                     \/ newTag.str \in Ancestors(castables, oldTag.str)

---------------------------------------------------------------------------
(* C29 *)

\* C29: a NULL pointer is silently ignored.  Unregistering an object that
\* holds the NULL pointer returns TCL_OK and leaves the table of pointers
\* as it is whenever the tag of the object passes the check of the unwrap:
\* the expected tag is NULL, or the object has no tag, or its tag is
\* compatible with the expected one.
C29_NullIgnored ==
    \A objP \in PointerObjs : \A tag \in TagObjs :
        LET u == PointerObjConvert(objP)
            r == Tclh_PointerObjUnregister(pointers, castables, objP, tag)
        IN  (/\ u.ret = TCL_OK
             /\ u.pv = 0
             /\ \/ tag = NULL
                \/ u.tag = NULL
                \/ PointerTypeCompatible(castables, u.tag, tag))
            => (r.ret = TCL_OK /\ r.pointers = pointers)

\* Pointers are registered, and the NULL pointer wrapped with a subtag is
\* unregistered with its supertag.
C29_Witness ==
    /\ DOMAIN pointers # {}
    /\ \E objP \in PointerObjs : \E tag \in NamedTags :
          /\ objP.typePtr = "Pointer" /\ objP.pv = 0 /\ objP.tag # NULL
          /\ objP.tag.str # tag.str
          /\ PointerTypeCompatible(castables, objP.tag, tag)
          /\ Tclh_PointerObjUnregister(pointers, castables, objP, tag).ret = TCL_OK
    /\ Tclh_PointerObjUnregister(pointers, castables, TextObj(NullLiteral), NULL).ret = TCL_OK

---------------------------------------------------------------------------
(* C30 *)

\* C30: verifying against several tags.  The call on an object that holds
\* a pointer fails only when the pointer is not registered or its
\* registered tag is compatible with none of the tags passed; whenever the
\* pointer is registered and its registered tag is compatible with one of
\* the tags, at any position, the call succeeds.
C30_VerifyAnyOf ==
    \A objP \in PointerObjs : \A tags \in TagLists :
        LET u == PointerObjConvert(objP)
            r == Tclh_PointerObjVerifyAnyOf(pointers, castables, objP, tags)
        IN  (u.ret = TCL_OK /\ Registered(u.pv)) =>
                ((\E i \in 1..Len(tags) :
                      PointerTypeCompatible(castables, pointers[u.pv].tagObj, tags[i]))
                 => r.ret = TCL_OK)

---------------------------------------------------------------------------
(* C32 *)

\* C32: unwrapping with an expected tag.  The registry's records are not
\* looked at: an object that holds a pointer unwraps the same whether the
\* pointer is registered or not.  The NULL pointer without tag unwraps
\* with every expected tag; in every other case a named expected tag is
\* accepted exactly when the tag of the object is that tag or derived from
\* it, a NULL pointer with a named tag included.
C32_UnwrapTagged ==
    \A objP \in PointerObjs : \A expected \in TagObjs :
        LET u == PointerObjConvert(objP)
            r == Tclh_PointerUnwrapTagged(castables, objP, expected)
            derived == /\ u.tag # NULL
                       /\ \/ SameText(u.tag, expected)
                          \/ expected.str \in Ancestors(castables, u.tag.str)
        IN  u.ret = TCL_OK =>
                /\ (u.pv = 0 /\ u.tag = NULL) => r.ret = TCL_OK
                /\ expected = NULL => r.ret = TCL_OK
                /\ (expected # NULL /\ ~(u.pv = 0 /\ u.tag = NULL)) =>
                       /\ r.ret = TCL_OK <=> derived
                       /\ r.ret # TCL_OK => r.ret = E_WrongType
                /\ r.ret = TCL_OK => r.pv = u.pv

\* With an edge in the table, the NULL pointer wrapped with a subtag
\* unwraps with its supertag and not with an unrelated tag, and a pointer
\* that is not registered unwraps with the supertag of its tag.
C32_Witness ==
    \E sub \in NamedTags, other \in NamedTags :
        /\ sub.str \in DOMAIN castables
        /\ castables[sub.str].str # other.str /\ other.str # sub.str
        /\ other.str \notin Ancestors(castables, sub.str)
        /\ Tclh_PointerUnwrapTagged(castables, WrappedObj(0, sub), castables[sub.str]).ret = TCL_OK
        /\ Tclh_PointerUnwrapTagged(castables, WrappedObj(0, sub), other).ret = E_WrongType
        /\ \E p \in Ptrs \ {0} :
              /\ ~Registered(p)
              /\ Tclh_PointerUnwrapTagged(castables, WrappedObj(p, sub), castables[sub.str]).ret = TCL_OK

---------------------------------------------------------------------------
(* C33 *)

\* The records of a table are well formed: exclusive (nRefs -1) or counted
\* with a count of at least 1.
WellFormed(ptrs) == \A p \in DOMAIN ptrs : ptrs[p].nRefs = -1 \/ ptrs[p].nRefs >= 1

\* C33: the records are well formed in every state, and every call leaves
\* them so; a counted registration raises the count of a record by exactly
\* 1 (a new record starts at 1), and a successful unregister of a record
\* with a count above 1 lowers it by exactly 1.
C33_RecordWellFormed ==
    /\ WellFormed(pointers)
    /\ \A p \in Ptrs : \A tag \in TagObjs :
          LET reg == TclhPointerRegister(pointers, p, tag, TRUE)
              excl == TclhPointerRegister(pointers, p, tag, FALSE)
              unreg == Tclh_PointerUnregister(pointers, castables, p, tag)
          IN  /\ WellFormed(reg.pointers) /\ WellFormed(excl.pointers)
              /\ WellFormed(unreg.pointers)
              /\ reg.ret = TCL_OK =>
                    reg.pointers[p].nRefs = IF Registered(p) THEN pointers[p].nRefs + 1 ELSE 1
              /\ (excl.ret = TCL_OK /\ Registered(p)) => excl.pointers = pointers
              /\ (unreg.ret = TCL_OK /\ pointers[p].nRefs > 1) =>
                    /\ Registered(p)
                    /\ unreg.pointers[p].nRefs = pointers[p].nRefs - 1
              /\ (unreg.ret = TCL_OK /\ pointers[p].nRefs <= 1) => p \notin DOMAIN unreg.pointers
    /\ \A p \in Ptrs : \A tag \in TagObjs : \A newTag \in TagObjs :
          WellFormed(Tclh_PointerCast(pointers, castables,
                                      Tclh_PointerWrap(p, tag), newTag).pointers)

\* A pointer with a count of MaxRegs next to an exclusive one, with an
\* edge in the table.
C33_Witness ==
    /\ DOMAIN castables # {}
    /\ \E p, q \in DOMAIN pointers :
          /\ pointers[p].nRefs = MaxRegs
          /\ pointers[q].nRefs = -1
          /\ Tclh_PointerUnregister(pointers, castables, p, NULL).ret = TCL_OK

---------------------------------------------------------------------------
(* C34 *)

\* C34: one supertag per subtag.  The table of edges maps the text of a
\* subtag to one supertag; defining a subtag never replaces the supertag of
\* an edge that exists by one of another text, and neither defining nor
\* removing a subtag changes the edge of any other subtag.
C34_SingleParent ==
    /\ \A sub \in NamedTags, super \in TagObjs :
          \A r \in Tclh_PointerSubtagDefine(castables, sub, super) :
              /\ \A s \in DOMAIN castables :
                    s \in DOMAIN r.table /\ r.table[s].str = castables[s].str
              /\ \A s \in DOMAIN r.table :
                    s \notin DOMAIN castables =>
                        (s = sub.str /\ r.ret = TCL_OK /\ r.table[s] = super)
    /\ \A tag \in TagObjs :
          LET r == Tclh_PointerSubtagRemove(castables, tag)
          IN  /\ DOMAIN r.table \subseteq DOMAIN castables
              /\ \A s \in DOMAIN castables :
                    (tag = NULL \/ s # tag.str) =>
                        (s \in DOMAIN r.table /\ r.table[s] = castables[s])

\* A subtag with an edge is defined again with another supertag, next to
\* the edge of another subtag.
C34_Witness ==
    \E sub \in NamedTags, super \in NamedTags :
        /\ sub.str \in DOMAIN castables
        /\ Cardinality(DOMAIN castables) >= 2
        /\ super.str # sub.str /\ super.str # castables[sub.str].str
        /\ \A r \in Tclh_PointerSubtagDefine(castables, sub, super) : r.ret = E_Exists

---------------------------------------------------------------------------
(* C35 *)

\* C35: a call that returns an error changes nothing.  Registering,
\* unregistering, verifying, casting and defining a subtag, by pointer or
\* by object, leave the table of pointers and the table of edges as they
\* were whenever they return an error.
C35_FailureAtomic ==
    /\ \A p \in Ptrs : \A tag \in TagObjs :
          /\ \A counted \in BOOLEAN :
                LET r == TclhPointerRegister(pointers, p, tag, counted)
                IN  r.ret # TCL_OK => r.pointers = pointers
          /\ LET r == Tclh_PointerUnregister(pointers, castables, p, tag)
             IN  r.ret # TCL_OK => r.pointers = pointers
          /\ LET r == Tclh_PointerVerify(pointers, castables, p, tag)
             IN  r.ret # TCL_OK => r.pointers = pointers
          /\ \A newTag \in TagObjs :
                LET r == Tclh_PointerCast(pointers, castables,
                                          Tclh_PointerWrap(p, tag), newTag)
                IN  r.ret # TCL_OK => (r.pointers = pointers /\ r.castables = castables)
    /\ \A sub \in NamedTags, super \in SuperTags :
          \A r \in Tclh_PointerSubtagDefine(castables, sub, super) :
              r.ret # TCL_OK => r.table = castables
    /\ \A objP \in PointerObjs :
          /\ \A tag \in TagObjs :
                /\ LET r == Tclh_PointerObjUnregister(pointers, castables, objP, tag)
                   IN  r.ret # TCL_OK => r.pointers = pointers
                /\ LET r == Tclh_PointerObjVerify(pointers, castables, objP, tag)
                   IN  r.ret # TCL_OK => r.pointers = pointers
          /\ \A tags \in TagLists :
                /\ LET r == Tclh_PointerObjUnregisterAnyOf(pointers, castables, objP, tags)
                   IN  r.ret # TCL_OK => r.pointers = pointers
                /\ LET r == Tclh_PointerObjVerifyAnyOf(pointers, castables, objP, tags)
                   IN  r.ret # TCL_OK => r.pointers = pointers

\* With a counted pointer, an exclusive pointer and an edge, a register, an
\* unregister, a cast and a define all return an error.
C35_Witness ==
    /\ \E p \in DOMAIN pointers : \E tag \in NamedTags, other \in NamedTags :
          /\ pointers[p].nRefs >= 2
          /\ SameText(pointers[p].tagObj, tag)
          /\ TclhPointerRegister(pointers, p, tag, FALSE).ret = E_Exists
          /\ Tclh_PointerUnregister(pointers, castables, p, other).ret = E_WrongType
          /\ Tclh_PointerCast(pointers, castables, Tclh_PointerWrap(p, tag), other).ret = E_Generic
          /\ Tclh_PointerObjUnregisterAnyOf(pointers, castables,
                                            WrappedObj(p, tag), <<other>>).ret # TCL_OK
    /\ \E q \in DOMAIN pointers : pointers[q].nRefs = -1
    /\ \E sub \in NamedTags, super \in NamedTags :
          \A r \in Tclh_PointerSubtagDefine(castables, sub, super) : r.ret = E_Exists

---------------------------------------------------------------------------
(* C36 *)

\* The table of pointers after n calls of Tclh_PointerUnregister on p with
\* the tag, each of which has to succeed; the table is left as it is from
\* the first call that fails.
RECURSIVE UnregisterTimes(_, _, _, _)
UnregisterTimes(ptrs, p, tag, n) ==
    IF n = 0 THEN ptrs
    ELSE LET r == Tclh_PointerUnregister(ptrs, castables, p, tag)
         IN  IF r.ret = TCL_OK THEN UnregisterTimes(r.pointers, p, tag, n - 1) ELSE ptrs

\* The number of unregistrations a record is good for.
Releases(rec) == IF rec.nRefs < 0 THEN 1 ELSE rec.nRefs

\* C36: a registered pointer can always be released.  In every state,
\* whatever casts and changes of the edges came before, unregistering a
\* registered pointer succeeds with no tag and with a tag of the text of
\* its registered tag, and as many unregistrations as its count (one for
\* an exclusive pointer) leave it without a record.
C36_AlwaysReleasable ==
    \A p \in DOMAIN pointers : \A tag \in TagObjs :
        (tag = NULL \/ SameText(tag, pointers[p].tagObj)) =>
            /\ Tclh_PointerUnregister(pointers, castables, p, tag).ret = TCL_OK
            /\ p \notin DOMAIN UnregisterTimes(pointers, p, tag, Releases(pointers[p]))
            /\ Releases(pointers[p]) > 1 =>
                  p \in DOMAIN UnregisterTimes(pointers, p, tag, Releases(pointers[p]) - 1)

\* A pointer with a count of MaxRegs whose tag is on a cycle of edges, as a
\* subtag and as a supertag.
C36_Witness ==
    \E p \in DOMAIN pointers :
        /\ pointers[p].nRefs = MaxRegs
        /\ pointers[p].tagObj # NULL
        /\ pointers[p].tagObj.str \in DOMAIN castables
        /\ pointers[p].tagObj.str \in Ancestors(castables, pointers[p].tagObj.str)
        /\ p \notin DOMAIN UnregisterTimes(pointers, p, NULL, MaxRegs)

---------------------------------------------------------------------------
(* C37 *)

\* The record is one of a counted pointer.
IsCounted(rec) == rec.nRefs >= 0

\* C37: the mode of a record is stable.  No step, a registration, an
\* unregistration, a cast or a change of the edges, turns the record of an
\* exclusive pointer into one of a counted pointer or the reverse: a
\* pointer that has a record before and after a step has the same mode in
\* both.
C37_ModeStable ==
    [][\A p \in (DOMAIN pointers) \cap (DOMAIN pointers') :
           IsCounted(pointers'[p]) = IsCounted(pointers[p])]_vars

\* A counted pointer and an exclusive pointer are registered, and a
\* registration in the other mode is refused for both.
C37_Witness ==
    \E p, q \in DOMAIN pointers :
        /\ pointers[p].nRefs = MaxRegs
        /\ pointers[q].nRefs = -1
        /\ TclhPointerRegister(pointers, p, pointers[p].tagObj, FALSE).ret = E_Exists
        /\ TclhPointerRegister(pointers, q, pointers[q].tagObj, TRUE).ret = E_Exists
        /\ DOMAIN castables # {}

---------------------------------------------------------------------------
(* C38 *)

\* The tag of an object passes the check of the unwrap against the
\* expected tag: there is nothing to check, or the tag is the expected one
\* or derived from it.
BoxTagPasses(u, expected) ==
    \/ expected = NULL
    \/ u.pv = 0 /\ u.tag = NULL
    \/ /\ u.tag # NULL
       /\ \/ SameText(u.tag, expected)
          \/ expected.str \in Ancestors(castables, u.tag.str)

\* Verifying an object succeeds exactly when its pointer is not NULL, its
\* tag passes the check of the unwrap, the pointer is registered and the
\* registered tag is compatible with the expected one; the tag of the
\* object is not compared with the registered tag, and the table of
\* pointers is left as it is.
ObjVerifySucceedsIff(objP, expected) ==
    LET u == PointerObjConvert(objP)
        r == Tclh_PointerObjVerify(pointers, castables, objP, expected)
    IN  /\ r.ret = TCL_OK <=>
              /\ u.pv # 0
              /\ BoxTagPasses(u, expected)
              /\ Registered(u.pv)
              /\ CompatibleWith(pointers[u.pv], expected)
        /\ r.pointers = pointers

\* C38 as stated: verifying an object succeeds exactly under the four
\* conditions above, and a NULL pointer yields InvalidValue.
C38_ObjVerify ==
    \A objP \in PointerObjs : \A expected \in TagObjs :
        PointerObjConvert(objP).ret = TCL_OK =>
            /\ ObjVerifySucceedsIff(objP, expected)
            /\ PointerObjConvert(objP).pv = 0 =>
                  Tclh_PointerObjVerify(pointers, castables, objP, expected).ret
                      = E_InvalidValue

\* C38 amended: verifying an object succeeds exactly under the four
\* conditions above; a NULL pointer yields InvalidValue when its tag passes
\* the check of the unwrap, and TypeMismatch when it carries a named tag
\* that is not compatible with the expected one.
C38_ObjVerifyNullChecked ==
    \A objP \in PointerObjs : \A expected \in TagObjs :
        LET u == PointerObjConvert(objP)
            r == Tclh_PointerObjVerify(pointers, castables, objP, expected)
        IN  u.ret = TCL_OK =>
                /\ ObjVerifySucceedsIff(objP, expected)
                /\ u.pv = 0 =>
                      r.ret = IF BoxTagPasses(u, expected)
                              THEN E_InvalidValue ELSE E_WrongType

\* A pointer registered with a tag verifies in an object that carries a
\* subtag of it, and the NULL pointer with a tag is refused once for being
\* NULL and once for its tag.
C38_Witness ==
    \E p \in DOMAIN pointers : \E sub \in NamedTags : \E other \in NamedTags :
        /\ pointers[p].tagObj # NULL
        /\ sub.str # pointers[p].tagObj.str
        /\ sub.str \in DOMAIN castables
        /\ castables[sub.str].str = pointers[p].tagObj.str
        /\ Tclh_PointerObjVerify(pointers, castables, WrappedObj(p, sub),
                                 pointers[p].tagObj).ret = TCL_OK
        /\ Tclh_PointerObjVerify(pointers, castables, WrappedObj(0, sub),
                                 pointers[p].tagObj).ret = E_InvalidValue
        /\ Tclh_PointerObjVerify(pointers, castables, WrappedObj(0, sub), other).ret
              = E_WrongType

---------------------------------------------------------------------------
(* C39 *)

\* The object holds the NULL pointer and unwraps with one of the tags.
NullMatchesOneOf(objP, tags) ==
    /\ PointerObjConvert(objP).ret = TCL_OK
    /\ PointerObjConvert(objP).pv = 0
    /\ TclhUnwrapAnyOfVA(castables, objP, tags).ret = TCL_OK

\* C39 as stated: the NULL pointer is ignored by both unregistrations of
\* an object.  Like Tclh_PointerObjUnregister, Tclh_PointerObjUnregisterAnyOf
\* on an object that holds the NULL pointer and unwraps with one of the
\* tags returns TCL_OK and leaves the table of pointers as it is.
C39_NullSameInBoth ==
    \A objP \in PointerObjs : \A tags \in TagLists :
        NullMatchesOneOf(objP, tags) =>
            LET r == Tclh_PointerObjUnregisterAnyOf(pointers, castables, objP, tags)
            IN  r.ret = TCL_OK /\ r.pointers = pointers

\* C39 amended: the NULL pointer is ignored by Tclh_PointerObjUnregister
\* only.  Tclh_PointerObjUnregisterAnyOf on an object that holds the NULL
\* pointer and unwraps with one of the tags fails with NotFound and leaves
\* the table of pointers as it is, where Tclh_PointerObjUnregister with
\* the tag it unwrapped with returns TCL_OK.
C39_NullRefusedByAnyOf ==
    \A objP \in PointerObjs : \A tags \in TagLists :
        NullMatchesOneOf(objP, tags) =>
            LET r == Tclh_PointerObjUnregisterAnyOf(pointers, castables, objP, tags)
                one == Tclh_PointerObjUnregister(pointers, castables, objP,
                           TclhUnwrapAnyOfVA(castables, objP, tags).tag)
            IN  /\ r.ret = E_NotFound /\ r.pointers = pointers
                /\ one.ret = TCL_OK /\ one.pointers = pointers

\* Pointers are registered, and the NULL pointer wrapped with a subtag is
\* unregistered with a list that holds its supertag after an unrelated tag.
C39_Witness ==
    /\ DOMAIN pointers # {}
    /\ \E sub \in NamedTags : \E tags \in TagLists :
          /\ Len(tags) = 2
          /\ sub.str \in DOMAIN castables
          /\ tags[2].str = castables[sub.str].str
          /\ NullMatchesOneOf(WrappedObj(0, sub), tags)
          /\ TclhUnwrapAnyOfVA(castables, WrappedObj(0, sub), tags).tag = tags[2]
          /\ Tclh_PointerObjUnregisterAnyOf(pointers, castables,
                                            WrappedObj(0, sub), tags).ret = E_NotFound

---------------------------------------------------------------------------
(* C40 *)

\* The outcome of the first Tclh_PointerLibInit of a context.
Created(r) ==
    /\ r.ret = TCL_OK
    /\ r.ctx.pointerRegistryP
    /\ r.ctx.cleanups = 1
    /\ r.pointers = EmptyTable
    /\ r.castables = EmptyTable

\* C40: creating the registry is idempotent per context.  The first
\* Tclh_PointerLibInit of a context builds an empty record table and an empty
\* hierarchy; every later one returns TCL_OK and leaves the records, the
\* edges and the context as they are, so that the registry is never replaced
\* and no second cleanup callback is queued.  A call names the context by its
\* interpreter or by the context itself.
C40_LibInitIdempotent ==
    /\ ctx.cleanups = (IF ctx.pointerRegistryP THEN 1 ELSE 0)
    /\ ~ctx.deleted =>
          \A interp \in BOOLEAN, tclhCtxP \in BOOLEAN :
              LET rs == Tclh_PointerLibInit(ctx, pointers, castables, interp, tclhCtxP)
              IN  /\ (ctx.pointerRegistryP /\ (interp \/ tclhCtxP)) =>
                        rs = {[ret |-> TCL_OK, ctx |-> ctx,
                               pointers |-> pointers, castables |-> castables]}
                  /\ (~ctx.pointerRegistryP /\ interp) =>
                        (rs # {} /\ \A r \in rs : Created(r))

\* A registry holding a record and an edge, on which Tclh_PointerLibInit is
\* called again.
C40_Witness ==
    /\ InUse
    /\ pointers # EmptyTable
    /\ castables # EmptyTable
    /\ \E r \in Tclh_PointerLibInit(ctx, pointers, castables, TRUE, FALSE) :
           r.ret = TCL_OK /\ r.pointers = pointers

---------------------------------------------------------------------------
(* C31 *)

\* C31: when the interpreter that owns a registry is deleted, the registry
\* is torn down: every record, exclusive or counted with any count, and
\* every edge is freed and none is left; the teardown runs once for a
\* registry, and not at all when no registry was created.
C31_Teardown ==
    /\ [](ctx.deleted =>
             /\ pointers = EmptyTable
             /\ castables = EmptyTable
             /\ ctx.teardowns = (IF ctx.pointerRegistryP THEN 1 ELSE 0))
    /\ [](ctx.teardowns <= 1)
    /\ [][(~ctx.deleted /\ ctx'.deleted) =>
             /\ ctx'.freed = [pointers |-> pointers, castables |-> castables]
             /\ pointers' = EmptyTable
             /\ castables' = EmptyTable]_vars
    /\ [][ctx.deleted => UNCHANGED <<pointers, castables, ctx>>]_vars

\* The interpreter was deleted while its registry held an exclusive record,
\* a record counted twice and an edge.
C31_Witness ==
    /\ ctx.deleted
    /\ ctx.teardowns = 1
    /\ pointers = EmptyTable
    /\ castables = EmptyTable
    /\ \E p \in DOMAIN ctx.freed.pointers : ctx.freed.pointers[p].nRefs = -1
    /\ \E p \in DOMAIN ctx.freed.pointers : ctx.freed.pointers[p].nRefs = 2
    /\ ctx.freed.castables # EmptyTable

===========================================================================
